---- MODULE Spec2Model ----
(***************************************************************************)
(* git-sv: the semantic-version resolver (sv/commit.go) and the commit     *)
(* message parser (sv/message.go), as pure operations applied to inputs    *)
(* drawn from bounded sets.                                                *)
(*                                                                         *)
(* Strings that the code inspects character by character (subjects,        *)
(* bodies, footer keys) are sequences of one-character strings; strings    *)
(* the code only compares as a whole (commit types in the resolver, map    *)
(* keys of the metadata) are TLA+ strings.                                 *)
(* Versions are release versions major.minor.patch; pre-release and build  *)
(* metadata are handled inside the external semver library and are not     *)
(* part of this model.                                                     *)
(***************************************************************************)
EXTENDS Integers, Sequences, FiniteSets, TLC

VARIABLES
    op,          \* the operation applied last
    vcfg,        \* the VersioningConfig the processor was constructed from
    p,           \* the SemVerCommitProcessor in use
    commit,      \* argument of the last versionTypeToUpdate call
    vtype,       \* its result
    version,     \* current version given to the last NextVersion call (Nil = nil pointer)
    commits,     \* commit list given to the last NextVersion call
    newVersion,  \* version returned by NextVersion (Nil = nil pointer)
    updated,     \* flag returned by NextVersion
    mcfg,        \* the CommitMessageConfig of the BaseMessageProcessor in use
    subject,     \* subject given to the last Parse call
    body,        \* body given to the last Parse call
    msg,         \* CommitMessage returned by Parse
    err,         \* error returned by Parse (NoError = nil)
    bcfg,        \* the BranchesConfig of the BaseMessageProcessor in use
    rcfg,        \* the ReleaseNotesConfig of the BaseReleaseNoteProcessor in use
    args,        \* arguments of the last call of any other operation
    ret,         \* what that call returned
    pc,          \* the step ValidateCommitMessageHandler is at ("none": it does not run)
    file,        \* content of the commit-message file
    appends,     \* how often WriteString was called on the file
    hook         \* what the handler was started with, and its local variables

resolverVars == <<vcfg, p, commit, vtype, version, commits, newVersion, updated>>
parserVars == <<mcfg, subject, body, msg, err>>
callVars == <<bcfg, rcfg, args, ret>>
hookVars == <<pc, file, appends, hook>>
vars == <<op, resolverVars, parserVars, callVars, hookVars>>

----------------------------------------------------------------------------
(* Bounds of the model *)

\* longest commit list given to NextVersion
MaxCommits == 2
\* largest major, minor and patch number of a current version
MaxVer == 1
\* most parts a generated description is put together from
MaxDescParts == 2
\* most lines of a generated body
MaxLines == 2
\* most entries of a skip list
MaxSkip == 2

----------------------------------------------------------------------------
(* sv/commit.go *)

none == 0
patch == 1
minor == 2
major == 3

\* the nil *semver.Version
Nil == [Nil |-> TRUE]

\* commit types that occur in rule sets and commits
CommitTypes == {"feat", "fix"}

\* CommitLog, reduced to the fields of Message that the resolver reads
CommitLog == [Type : CommitTypes, IsBreakingChange : BOOLEAN]

\* the lists of known types (mcfg.Types) a processor is constructed with
KnownTypeLists == {<<>>, <<"feat">>, <<"feat", "fix">>}

VersioningConfig ==
    [UpdateMajor : SUBSET CommitTypes, UpdateMinor : SUBSET CommitTypes,
     UpdatePatch : SUBSET CommitTypes, IgnoreUnknown : BOOLEAN]

Versions == [Major : 0..MaxVer, Minor : 0..MaxVer, Patch : 0..MaxVer]

contains(value, content) == \E i \in DOMAIN content : content[i] = value

NewSemVerCommitProcessor(cfg, types) ==
    [IncludeUnknownTypeAsPatch |-> ~cfg.IgnoreUnknown,
     MajorVersionTypes |-> cfg.UpdateMajor,
     MinorVersionTypes |-> cfg.UpdateMinor,
     PatchVersionTypes |-> cfg.UpdatePatch,
     KnownTypes |-> types]

\* mutant: the rule sets are consulted before the breaking-change flag
versionTypeToUpdate_TypeFirst(proc, c) ==
    IF c.Type \in proc.MajorVersionTypes THEN major
    ELSE IF c.Type \in proc.MinorVersionTypes THEN minor
    ELSE IF c.Type \in proc.PatchVersionTypes THEN patch
    ELSE IF c.IsBreakingChange THEN major
    ELSE IF ~contains(c.Type, proc.KnownTypes) /\ proc.IncludeUnknownTypeAsPatch THEN patch
    ELSE none

\* mutant: every type outside the three sets counts as patch, known or not
versionTypeToUpdate_KnownAsPatch(proc, c) ==
    IF c.IsBreakingChange THEN major
    ELSE IF c.Type \in proc.MajorVersionTypes THEN major
    ELSE IF c.Type \in proc.MinorVersionTypes THEN minor
    ELSE IF c.Type \in proc.PatchVersionTypes THEN patch
    ELSE IF proc.IncludeUnknownTypeAsPatch THEN patch
    ELSE none

versionTypeToUpdate(proc, c) ==
    IF c.IsBreakingChange THEN major
    ELSE IF c.Type \in proc.MajorVersionTypes THEN major
    ELSE IF c.Type \in proc.MinorVersionTypes THEN minor
    ELSE IF c.Type \in proc.PatchVersionTypes THEN patch
    ELSE IF ~contains(c.Type, proc.KnownTypes) /\ proc.IncludeUnknownTypeAsPatch THEN patch
    ELSE none

IncMajor(v) == [Major |-> v.Major + 1, Minor |-> 0, Patch |-> 0]
IncMinor(v) == [Major |-> v.Major, Minor |-> v.Minor + 1, Patch |-> 0]
IncPatch(v) == [Major |-> v.Major, Minor |-> v.Minor, Patch |-> v.Patch + 1]

\* mutant: a minor update keeps the patch number
updateVersion_KeepPatch(v, versionToUpdate) ==
    CASE versionToUpdate = major -> IncMajor(v)
      [] versionToUpdate = minor -> [Major |-> v.Major, Minor |-> v.Minor + 1, Patch |-> v.Patch]
      [] versionToUpdate = patch -> IncPatch(v)
      [] OTHER -> v

updateVersion(v, versionToUpdate) ==
    CASE versionToUpdate = major -> IncMajor(v)
      [] versionToUpdate = minor -> IncMinor(v)
      [] versionToUpdate = patch -> IncPatch(v)
      [] OTHER -> v

\* mutant: the last commit that asks for an update decides, not the largest
RECURSIVE versionToUpdateLoop_LastWins(_, _, _, _)
versionToUpdateLoop_LastWins(proc, cs, i, acc) ==
    IF i > Len(cs) THEN acc
    ELSE LET v == versionTypeToUpdate(proc, cs[i])
         IN versionToUpdateLoop_LastWins(proc, cs, i + 1, IF v # none THEN v ELSE acc)

\* the loop of NextVersion: versionToUpdate after the commits i..Len(cs),
\* entered with the value acc
RECURSIVE versionToUpdateLoop(_, _, _, _)
versionToUpdateLoop(proc, cs, i, acc) ==
    IF i > Len(cs) THEN acc
    ELSE LET v == versionTypeToUpdate(proc, cs[i])
         IN versionToUpdateLoop(proc, cs, i + 1, IF v > acc THEN v ELSE acc)

\* mutant: no second look at a result that stays in 0.0.x
NextVersion_NoClamp(proc, v, cs) ==
    LET versionToUpdate == versionToUpdateLoop(proc, cs, 1, none)
        upd == versionToUpdate # none
    IN IF v = Nil THEN <<Nil, upd>>
       ELSE <<updateVersion(v, versionToUpdate), upd>>

\* mutant: updated reports whether the returned version differs from the
\* current one
NextVersion_UpdatedByVersion(proc, v, cs) ==
    LET versionToUpdate == versionToUpdateLoop(proc, cs, 1, none)
    IN IF v = Nil THEN <<Nil, FALSE>>
       ELSE LET nv == updateVersion(v, versionToUpdate)
                r == IF nv.Major = 0 /\ nv.Minor = 0 THEN updateVersion(v, minor) ELSE nv
            IN <<r, r # v>>

\* NextVersion returns the pair <<version, updated>>
NextVersion(proc, v, cs) ==
    LET versionToUpdate == versionToUpdateLoop(proc, cs, 1, none)
        upd == versionToUpdate # none
    IN IF v = Nil THEN <<Nil, upd>>
       ELSE LET nv == updateVersion(v, versionToUpdate)
            IN IF nv.Major = 0 /\ nv.Minor = 0 THEN <<updateVersion(v, minor), upd>>
               ELSE <<nv, upd>>

----------------------------------------------------------------------------
(* sv/message.go *)

BreakingChangeFooterKey == <<"B", "R", "E", "A", "K", "I", "N", "G", " ", "C", "H", "A", "N", "G", "E">>
BreakingChangeMetadataKey == "breaking-change"
IssueMetadataKey == "issue"

NoError == "nil"

\* a nil map[string]string, as in the zero CommitMessage
NilMap == [nil |-> TRUE]
\* make(map[string]string)
EmptyMap == [k \in {} |-> <<>>]

\* CommitMessage{}
ZeroCommitMessage ==
    [Type |-> <<>>, Scope |-> <<>>, Description |-> <<>>, Body |-> <<>>,
     IsBreakingChange |-> FALSE, Metadata |-> NilMap]

\* CommitMessage.BreakingMessage
BreakingMessage(m) ==
    IF BreakingChangeMetadataKey \in DOMAIN m.Metadata
    THEN m.Metadata[BreakingChangeMetadataKey] ELSE <<>>

\* NewCommitMessage
NewCommitMessage(ctype, scope, description, bdy, issue, breakingChanges) ==
    LET md1 == IF issue # <<>> THEN (IssueMetadataKey :> issue) ELSE EmptyMap
        md2 == IF breakingChanges # <<>>
               THEN (BreakingChangeMetadataKey :> breakingChanges) @@ md1 ELSE md1
    IN [Type |-> ctype, Scope |-> scope, Description |-> description, Body |-> bdy,
        IsBreakingChange |-> breakingChanges # <<>>, Metadata |-> md2]

\* the regexp class [a-z]
Lower ==
    {"a", "b", "c", "d", "e", "f", "g", "h", "i", "j", "k", "l", "m",
     "n", "o", "p", "q", "r", "s", "t", "u", "v", "w", "x", "y", "z"}

\* what strings.TrimSpace removes
WhiteSpace == {" ", "\t", "\n", "\r", "\f"}

\* the regexp atom . (any character but a line feed)
Dot(c) == c # "\n"

RECURSIVE TrimLeft(_)
TrimLeft(s) ==
    IF s # <<>> /\ Head(s) \in WhiteSpace THEN TrimLeft(Tail(s)) ELSE s

RECURSIVE TrimRight(_)
TrimRight(s) ==
    IF s # <<>> /\ s[Len(s)] \in WhiteSpace THEN TrimRight(SubSeq(s, 1, Len(s) - 1)) ELSE s

TrimSpace(s) == TrimRight(TrimLeft(s))

\* strings.HasPrefix and strings.TrimPrefix
HasPrefix(s, pre) == Len(s) >= Len(pre) /\ SubSeq(s, 1, Len(pre)) = pre
TrimPrefix(s, pre) == IF HasPrefix(s, pre) THEN SubSeq(s, Len(pre) + 1, Len(s)) ELSE s

\* the longest run of . characters from position i on: what a greedy (.*)
\* at the end of a pattern captures
RECURSIVE RestOfLine(_, _)
RestOfLine(s, i) ==
    IF i > Len(s) \/ ~Dot(s[i]) THEN <<>> ELSE <<s[i]>> \o RestOfLine(s, i + 1)

RECURSIVE removeCarriage(_)
removeCarriage(s) ==
    IF s = <<>> THEN <<>>
    ELSE IF Head(s) = "\r" THEN removeCarriage(Tail(s))
    ELSE <<Head(s)>> \o removeCarriage(Tail(s))

\* every way ([a-z]+)(\((.*)\))?(!)?: (.*) matches inside s: the type is
\* s[i..t], the scope group closes at k (k = 0: the group takes no part),
\* b tells whether (!) takes part
subjectMatches(s) ==
    LET lower == {i \in 1..Len(s) : s[i] \in Lower}
        closing == {k \in 1..Len(s) : s[k] = ")"}
    IN {m \in [i : lower, t : lower, k : {0} \cup closing, b : BOOLEAN] :
        /\ m.i <= m.t
        /\ \A j \in m.i..m.t : s[j] \in Lower
        /\ m.k # 0 =>
              /\ m.t + 1 <= Len(s)
              /\ s[m.t + 1] = "("
              /\ m.k > m.t + 1
              /\ \A j \in (m.t + 2)..(m.k - 1) : Dot(s[j])
        /\ LET q == (IF m.k = 0 THEN m.t ELSE m.k) + 1
               r == IF m.b THEN q + 1 ELSE q
           IN /\ m.b => (q <= Len(s) /\ s[q] = "!")
              /\ r + 1 <= Len(s)
              /\ s[r] = ":"
              /\ s[r + 1] = " "}

\* the order in which the regexp engine prefers matches: leftmost start,
\* then the greedy choices from left to right (longest type, scope group
\* taken and as long as possible, ! taken)
subjectPrefers(m, n) ==
    \/ m.i < n.i
    \/ m.i = n.i /\ m.t > n.t
    \/ m.i = n.i /\ m.t = n.t /\ m.k > n.k
    \/ m.i = n.i /\ m.t = n.t /\ m.k = n.k /\ (m.b \/ ~n.b)

\* parseSubjectMessage returns <<type, scope, description, breaking>>
parseSubjectMessage(message) ==
    LET ms == subjectMatches(message)
    IN IF ms = {} THEN <<<<>>, <<>>, message, FALSE>>
       ELSE LET m == CHOOSE x \in ms : \A y \in ms : subjectPrefers(x, y)
                q == (IF m.k = 0 THEN m.t ELSE m.k) + 1
                r == IF m.b THEN q + 1 ELSE q
            IN <<SubSeq(message, m.i, m.t),
                 IF m.k = 0 THEN <<>> ELSE SubSeq(message, m.t + 2, m.k - 1),
                 TrimSpace(RestOfLine(message, r + 2)),
                 m.b>>

\* positions at which pat occurs in text
Occurrences(pat, text) ==
    {i \in 1..(Len(text) - Len(pat) + 1) : SubSeq(text, i, i + Len(pat) - 1) = pat}

Min(S) == CHOOSE x \in S : \A y \in S : x <= y

\* key + ": (.*)", or key + " (#.*)" with useHash; the key is a plain word
extractFooterMetadata(key, text, useHash) ==
    LET pat == key \o (IF useHash THEN <<" ", "#">> ELSE <<":", " ">>)
        occ == Occurrences(pat, text)
    IN IF occ = {} THEN <<>>
       ELSE LET i == Min(occ)
            IN IF useHash THEN <<"#">> \o RestOfLine(text, i + Len(pat))
               ELSE RestOfLine(text, i + Len(pat))

MessageRegexGroupName == "header"

\* The header selectors of the model, by their source text: none, one that
\* does not compile, one without a group named header, and one that selects
\* what follows "X " up to the end of the line.
HeaderSelectors == {"", "(", "X (.*)", "X (?P<header>.*)"}

\* regexp.Compile succeeds
regexpCompiles(re) == re # "("

\* Regexp.SubexpIndex
SubexpIndex(re, name) ==
    IF re = "X (?P<header>.*)" /\ name = "header" THEN 1 ELSE -1

\* Regexp.FindStringSubmatch for the selectors "X (.*)" and "X (?P<header>.*)":
\* <<whole match, group 1>>, or <<>> (nil) without a match
FindStringSubmatch(re, s) ==
    LET occ == Occurrences(<<"X", " ">>, s)
    IN IF occ = {} THEN <<>>
       ELSE LET rest == RestOfLine(s, Min(occ) + 2)
            IN <<<<"X", " ">> \o rest, rest>>

\* mutant: a subject the selector does not match is handed on as it is
prepareHeader_NoMatchKeepsHeader(cfg, header) ==
    IF cfg.HeaderSelector = "" THEN <<header, NoError>>
    ELSE IF ~regexpCompiles(cfg.HeaderSelector) THEN <<<<>>, "errInvalidHeaderRegex">>
    ELSE LET index == SubexpIndex(cfg.HeaderSelector, MessageRegexGroupName)
         IN IF index < 0 THEN <<<<>>, "errInvalidHeaderRegex">>
            ELSE LET match == FindStringSubmatch(cfg.HeaderSelector, header)
                 IN IF match = <<>> \/ Len(match) < index
                    THEN <<header, NoError>>
                    ELSE <<match[index + 1], NoError>>

\* prepareHeader returns <<header, error>>
prepareHeader(cfg, header) ==
    IF cfg.HeaderSelector = "" THEN <<header, NoError>>
    ELSE IF ~regexpCompiles(cfg.HeaderSelector) THEN <<<<>>, "errInvalidHeaderRegex">>
    ELSE LET index == SubexpIndex(cfg.HeaderSelector, MessageRegexGroupName)
         IN IF index < 0 THEN <<<<>>, "errInvalidHeaderRegex">>
            ELSE LET match == FindStringSubmatch(cfg.HeaderSelector, header)
                 IN IF match = <<>> \/ Len(match) < index
                    THEN <<<<>>, "errInvalidHeaderRegex">>
                    ELSE <<match[index + 1], NoError>>

\* the prefixes tried for one footer: the key, then its synonyms
footerPrefixes(mdCfg) == <<mdCfg.Key>> \o mdCfg.KeySynonyms

\* mutant: no break after a hit, the last prefix with a value decides
RECURSIVE firstFooterValue_LastWins(_, _, _, _)
firstFooterValue_LastWins(prefixes, i, text, useHash) ==
    IF i > Len(prefixes) THEN <<>>
    ELSE LET tagValue == extractFooterMetadata(prefixes[i], text, useHash)
             later == firstFooterValue_LastWins(prefixes, i + 1, text, useHash)
         IN IF later # <<>> THEN later ELSE tagValue

\* the inner loop of Parse: the value of the first prefix from position i on
\* whose search gives a non-empty value, <<>> when there is none
RECURSIVE firstFooterValue(_, _, _, _)
firstFooterValue(prefixes, i, text, useHash) ==
    IF i > Len(prefixes) THEN <<>>
    ELSE LET tagValue == extractFooterMetadata(prefixes[i], text, useHash)
         IN IF tagValue # <<>> THEN tagValue
            ELSE firstFooterValue(prefixes, i + 1, text, useHash)

\* the footer loop of Parse. Every entry of the configuration writes its own
\* map key only, so the iteration order of the Go map makes no difference.
footerMetadata(cfg, text) ==
    LET value(key) ==
            firstFooterValue(footerPrefixes(cfg.Footer[key]), 1, text, cfg.Footer[key].UseHash)
        found == {key \in DOMAIN cfg.Footer :
                     cfg.Footer[key].Key # <<>> /\ value(key) # <<>>}
    IN [key \in found |-> value(key)]

\* m.Metadata[key] = value
MapSet(map, key, value) == (key :> value) @@ map

\* mutant: the description of a subject with ! is stored after the footer
\* scan, so it replaces the message of a BREAKING CHANGE footer
Parse_BangWins(cfg, subj, bdy) ==
    LET prepared == prepareHeader(cfg, subj)
    IN IF prepared[2] # NoError THEN <<ZeroCommitMessage, prepared[2]>>
       ELSE
        LET text == removeCarriage(bdy)
            parsed == parseSubjectMessage(prepared[1])
            md1 == footerMetadata(cfg, text)
            tagValue == extractFooterMetadata(BreakingChangeFooterKey, text, FALSE)
            md2 == IF tagValue # <<>> THEN MapSet(md1, BreakingChangeMetadataKey, tagValue)
                   ELSE md1
        IN <<[Type |-> parsed[1],
              Scope |-> parsed[2],
              Description |-> parsed[3],
              Body |-> text,
              IsBreakingChange |-> parsed[4] \/ tagValue # <<>>,
              Metadata |-> IF parsed[4]
                           THEN MapSet(md2, BreakingChangeMetadataKey, parsed[3])
                           ELSE md2],
             NoError>>

\* Parse returns <<message, error>>
Parse(cfg, subj, bdy) ==
    LET prepared == prepareHeader(cfg, subj)
    IN IF prepared[2] # NoError THEN <<ZeroCommitMessage, prepared[2]>>
       ELSE
        LET text == removeCarriage(bdy)
            parsed == parseSubjectMessage(prepared[1])
            md1 == footerMetadata(cfg, text)
            md2 == IF parsed[4] THEN MapSet(md1, BreakingChangeMetadataKey, parsed[3])
                   ELSE md1
            tagValue == extractFooterMetadata(BreakingChangeFooterKey, text, FALSE)
        IN <<[Type |-> parsed[1],
              Scope |-> parsed[2],
              Description |-> parsed[3],
              Body |-> text,
              IsBreakingChange |-> parsed[4] \/ tagValue # <<>>,
              Metadata |-> IF tagValue # <<>>
                           THEN MapSet(md2, BreakingChangeMetadataKey, tagValue)
                           ELSE md2],
             NoError>>

\* bufio.ScanLines: one trailing carriage return of a line is dropped
dropCR(line) ==
    IF line # <<>> /\ line[Len(line)] = "\r" THEN SubSeq(line, 1, Len(line) - 1) ELSE line

\* the tokens of bufio.NewScanner(strings.NewReader(content)): the lines of
\* content without their line ends; no token after a final line feed
RECURSIVE ScanLines(_)
ScanLines(content) ==
    LET nl == {i \in 1..Len(content) : content[i] = "\n"}
    IN IF content = <<>> THEN <<>>
       ELSE IF nl = {} THEN <<dropCR(content)>>
       ELSE <<dropCR(SubSeq(content, 1, Min(nl) - 1))>>
                \o ScanLines(SubSeq(content, Min(nl) + 1, Len(content)))

\* the body loop of splitCommitMessageContent: the lines joined by "\n"
RECURSIVE joinBody(_)
joinBody(lines) ==
    IF lines = <<>> THEN <<>>
    ELSE IF Len(lines) = 1 THEN lines[1]
    ELSE lines[1] \o <<"\n">> \o joinBody(Tail(lines))

\* splitCommitMessageContent returns <<subject, body>>
splitCommitMessageContent(content) ==
    LET lines == ScanLines(content)
    IN IF lines = <<>> THEN <<<<>>, <<>>>>
       ELSE <<lines[1], joinBody(Tail(lines))>>

\* the errors of Validate: errInvalidCommitMessage wrapped with the reason
ErrSubjectNotValid == "errInvalidCommitMessage: subject not valid"
ErrTypeNotValid == "errInvalidCommitMessage: type must be one of"
ErrScopeNotValid == "errInvalidCommitMessage: scope must one of"
ErrDescriptionNotValid == "errInvalidCommitMessage: description must start with lowercase"

\* regexp ^[a-z+]+(\(.+\))?!?: .+$ matches s
subjectIsValid(s) ==
    \E n \in 1..Len(s), k \in 0..Len(s), b \in BOOLEAN :
        /\ \A j \in 1..n : s[j] \in Lower \cup {"+"}
        /\ k # 0 =>
              /\ k > n + 2
              /\ s[n + 1] = "("
              /\ s[k] = ")"
              /\ \A j \in (n + 2)..(k - 1) : Dot(s[j])
        /\ LET q == (IF k = 0 THEN n ELSE k) + 1
               r == IF b THEN q + 1 ELSE q
           IN /\ b => (q <= Len(s) /\ s[q] = "!")
              /\ r + 2 <= Len(s)
              /\ s[r] = ":"
              /\ s[r + 1] = " "
              /\ \A j \in (r + 2)..Len(s) : Dot(s[j])

ValidateType(cfg, ctype) ==
    IF ctype = <<>> \/ ~contains(ctype, cfg.Types) THEN ErrTypeNotValid ELSE NoError

ValidateScope(cfg, scope) ==
    IF Len(cfg.Scope.Values) > 0 /\ ~contains(scope, cfg.Scope.Values)
    THEN ErrScopeNotValid ELSE NoError

\* regexp ^[a-z]+.*$ matches the description
ValidateDescription(description) ==
    IF /\ description # <<>>
       /\ description[1] \in Lower
       /\ \A j \in 1..Len(description) : Dot(description[j])
    THEN NoError ELSE ErrDescriptionNotValid

\* mutant: the description is checked before the type and the scope
Validate_DescriptionFirst(cfg, message) ==
    LET split == splitCommitMessageContent(message)
        parsed == Parse(cfg, split[1], split[2])
        m == parsed[1]
    IN IF parsed[2] # NoError THEN parsed[2]
       ELSE IF ~subjectIsValid(split[1]) THEN ErrSubjectNotValid
       ELSE IF ValidateDescription(m.Description) # NoError THEN ValidateDescription(m.Description)
       ELSE IF ValidateType(cfg, m.Type) # NoError THEN ValidateType(cfg, m.Type)
       ELSE ValidateScope(cfg, m.Scope)

\* Validate returns the error
Validate(cfg, message) ==
    LET split == splitCommitMessageContent(message)
        parsed == Parse(cfg, split[1], split[2])
        m == parsed[1]
    IN IF parsed[2] # NoError THEN parsed[2]
       ELSE IF ~subjectIsValid(split[1]) THEN ErrSubjectNotValid
       ELSE IF ValidateType(cfg, m.Type) # NoError THEN ValidateType(cfg, m.Type)
       ELSE IF ValidateScope(cfg, m.Scope) # NoError THEN ValidateScope(cfg, m.Scope)
       ELSE ValidateDescription(m.Description)

----------------------------------------------------------------------------
(* Enhance and IssueID.  A footer key is a plain word.  The patterns of    *)
(* the branches and of the issue are known by their source text, as the    *)
(* header selectors are.                                                   *)

\* the regexp classes [A-Z], [0-9] and [a-zA-Z-]
Upper ==
    {"A", "B", "C", "D", "E", "F", "G", "H", "I", "J", "K", "L", "M",
     "N", "O", "P", "Q", "R", "S", "T", "U", "V", "W", "X", "Y", "Z"}
Digit == {"0", "1", "2", "3", "4", "5", "6", "7", "8", "9"}
FooterWord == Lower \cup Upper \cup {"-"}

\* CommitMessageFooterConfig{}
ZeroFooterConfig ==
    [Key |-> <<>>, KeySynonyms |-> <<>>, UseHash |-> FALSE, AddValuePrefix |-> <<>>]

IssueFooterConfig(cfg) ==
    IF IssueMetadataKey \in DOMAIN cfg.Footer THEN cfg.Footer[IssueMetadataKey]
    ELSE ZeroFooterConfig

\* mutant: only the colon style is looked for
hasIssueID_ColonOnly(message, issueConfig) ==
    LET pat == issueConfig.Key \o <<":", " ">>
    IN \E i \in Occurrences(pat, message) :
          /\ i = 1 \/ message[i - 1] = "\n"
          /\ RestOfLine(message, i + Len(pat)) # <<>>

\* (?m)^key: .+$, or (?m)^key #.+$ with UseHash
hasIssueID(message, issueConfig) ==
    LET pat == issueConfig.Key
                 \o (IF issueConfig.UseHash THEN <<" ", "#">> ELSE <<":", " ">>)
    IN \E i \in Occurrences(pat, message) :
          /\ i = 1 \/ message[i - 1] = "\n"
          /\ RestOfLine(message, i + Len(pat)) # <<>>

\* ^[a-zA-Z-]+: .*|^[a-zA-Z-]+ #.*|^BREAKING CHANGE: .* matches the line
footerLine(line) ==
    \/ \E n \in 1..Len(line) :
          /\ \A j \in 1..n : line[j] \in FooterWord
          /\ Len(line) >= n + 2
          /\ SubSeq(line, n + 1, n + 2) \in {<<":", " ">>, <<" ", "#">>}
    \/ HasPrefix(line, BreakingChangeFooterKey \o <<":", " ">>)

\* mutant: the subject line counts as a footer too
hasFooter_AnyLine(message) ==
    LET lines == ScanLines(message)
    IN \E i \in DOMAIN lines : footerLine(lines[i])

hasFooter(message) ==
    LET lines == ScanLines(message)
    IN \E i \in DOMAIN lines : i > 1 /\ footerLine(lines[i])

\* mutant: the value prefix is put before every issue id
formatIssueFooter_AlwaysPrefix(cfg, id) ==
    LET issue == cfg.AddValuePrefix \o id
    IN IF cfg.UseHash THEN cfg.Key \o <<" ", "#">> \o TrimPrefix(issue, <<"#">>)
       ELSE cfg.Key \o <<":", " ">> \o issue

formatIssueFooter(cfg, id) ==
    LET issue == IF ~HasPrefix(id, cfg.AddValuePrefix) THEN cfg.AddValuePrefix \o id ELSE id
    IN IF cfg.UseHash THEN cfg.Key \o <<" ", "#">> \o TrimPrefix(issue, <<"#">>)
       ELSE cfg.Key \o <<":", " ">> \o issue

\* The patterns of the model.  Prefix and suffix of the branches: none, or
\* the optional group of the tests.  Issue: none, one that does not
\* compile, letters-number, the same with a group of its own, and a number
\* with an optional "#".
BranchPrefixes == {"", "([a-z]+\\/)?"}
BranchSuffixes == {"", "(-.*)?"}
IssueRegexes == {"", "(", "[A-Z]+-[0-9]+", "([A-Z]+)-[0-9]+", "#?[0-9]+"}

\* s matches the whole prefix pattern (an unmatched optional group is "")
matchesPrefix(prefix, s) ==
    \/ s = <<>>
    \/ /\ prefix # ""
       /\ Len(s) >= 2
       /\ s[Len(s)] = "/"
       /\ \A j \in 1..(Len(s) - 1) : s[j] \in Lower

matchesSuffix(suffix, s) ==
    \/ s = <<>>
    \/ /\ suffix # ""
       /\ s[1] = "-"
       /\ \A j \in 1..Len(s) : Dot(s[j])

\* where the "-" of letters-number stands in s; 0: s is not of that shape
dashOf(s) ==
    LET ds == {d \in 2..(Len(s) - 1) :
                  /\ s[d] = "-"
                  /\ \A j \in 1..(d - 1) : s[j] \in Upper
                  /\ \A j \in (d + 1)..Len(s) : s[j] \in Digit}
    IN IF ds = {} THEN 0 ELSE CHOOSE d \in ds : TRUE

\* s matches the whole issue pattern
matchesIssue(regex, s) ==
    IF regex = "#?[0-9]+"
    THEN LET t == TrimPrefix(s, <<"#">>)
         IN t # <<>> /\ \A j \in 1..Len(t) : t[j] \in Digit
    ELSE dashOf(s) > 0

\* the groups the issue pattern has of its own, as matched in s
issueGroups(regex, s) ==
    IF regex = "([A-Z]+)-[0-9]+" THEN <<SubSeq(s, 1, dashOf(s) - 1)>> ELSE <<>>

\* regexp.Compile of ^prefix(regex)suffix$ succeeds
issueRegexCompiles(regex) == regex # "("

\* Regexp.FindStringSubmatch of ^prefix(regex)suffix$: the whole match and
\* the groups from left to right, or <<>> (nil) without a match.  A branch
\* splits in one way at most: the prefix ends at the first "/" after
\* lowercase letters and the issue at its last digit.
findBranchSubmatch(prefix, regex, suffix, branch) ==
    LET splits == {x \in (0..Len(branch)) \X (0..Len(branch)) :
                      /\ x[1] <= x[2]
                      /\ matchesPrefix(prefix, SubSeq(branch, 1, x[1]))
                      /\ matchesIssue(regex, SubSeq(branch, x[1] + 1, x[2]))
                      /\ matchesSuffix(suffix, SubSeq(branch, x[2] + 1, Len(branch)))}
    IN IF splits = {} THEN <<>>
       ELSE LET x == CHOOSE y \in splits : TRUE
                issue == SubSeq(branch, x[1] + 1, x[2])
            IN <<branch>>
                 \o (IF prefix = "" THEN <<>> ELSE <<SubSeq(branch, 1, x[1])>>)
                 \o <<issue>> \o issueGroups(regex, issue)
                 \o (IF suffix = "" THEN <<>> ELSE <<SubSeq(branch, x[2] + 1, Len(branch))>>)

errIssueIDNotFound == "errIssueIDNotFound"
errInvalidIssueRegex == "errInvalidIssueRegex"

\* IssueID returns <<issue, error>>
IssueID(branchesCfg, messageCfg, branch) ==
    IF branchesCfg.DisableIssue \/ messageCfg.Issue.Regex = "" THEN <<<<>>, NoError>>
    ELSE IF ~issueRegexCompiles(messageCfg.Issue.Regex) THEN <<<<>>, errInvalidIssueRegex>>
    ELSE LET groups == findBranchSubmatch(branchesCfg.Prefix, messageCfg.Issue.Regex,
                                          branchesCfg.Suffix, branch)
         IN IF Len(groups) # 4 THEN <<<<>>, NoError>>
            ELSE <<groups[3], NoError>>

\* mutant: the issue is resolved before the cases without effect are tested
Enhance_ResolveFirst(branchesCfg, messageCfg, branch, message) ==
    LET issue == IssueID(branchesCfg, messageCfg, branch)
    IN IF issue[2] # NoError THEN <<<<>>, issue[2]>>
       ELSE IF issue[1] = <<>> THEN <<<<>>, errIssueIDNotFound>>
       ELSE IF \/ branchesCfg.DisableIssue
               \/ IssueFooterConfig(messageCfg).Key = <<>>
               \/ hasIssueID(message, IssueFooterConfig(messageCfg))
       THEN <<<<>>, NoError>>
       ELSE LET footer == formatIssueFooter(IssueFooterConfig(messageCfg), issue[1])
            IN IF ~hasFooter(message) THEN <<<<"\n">> \o footer, NoError>>
               ELSE <<footer, NoError>>

\* mutant: a branch without an issue id yields a footer without a value
Enhance_EmptyIssue(branchesCfg, messageCfg, branch, message) ==
    IF \/ branchesCfg.DisableIssue
       \/ IssueFooterConfig(messageCfg).Key = <<>>
       \/ hasIssueID(message, IssueFooterConfig(messageCfg))
    THEN <<<<>>, NoError>>
    ELSE LET issue == IssueID(branchesCfg, messageCfg, branch)
         IN IF issue[2] # NoError THEN <<<<>>, issue[2]>>
            ELSE LET footer == formatIssueFooter(IssueFooterConfig(messageCfg), issue[1])
                 IN IF ~hasFooter(message) THEN <<<<"\n">> \o footer, NoError>>
                    ELSE <<footer, NoError>>

\* Enhance returns <<text, error>>
Enhance(branchesCfg, messageCfg, branch, message) ==
    IF \/ branchesCfg.DisableIssue
       \/ IssueFooterConfig(messageCfg).Key = <<>>
       \/ hasIssueID(message, IssueFooterConfig(messageCfg))
    THEN <<<<>>, NoError>>
    ELSE LET issue == IssueID(branchesCfg, messageCfg, branch)
         IN IF issue[2] # NoError THEN <<<<>>, issue[2]>>
            ELSE IF issue[1] = <<>> THEN <<<<>>, errIssueIDNotFound>>
            ELSE LET footer == formatIssueFooter(IssueFooterConfig(messageCfg), issue[1])
                 IN IF ~hasFooter(message) THEN <<<<"\n">> \o footer, NoError>>
                    ELSE <<footer, NoError>>

\* Format returns <<header, body, footer>>
Format(cfg, m) ==
    LET header == m.Type
                    \o (IF m.Scope # <<>> THEN <<"(">> \o m.Scope \o <<")">> ELSE <<>>)
                    \o <<":", " ">> \o m.Description
        breaking == IF BreakingMessage(m) # <<>>
                    THEN BreakingChangeFooterKey \o <<":", " ">> \o BreakingMessage(m)
                    ELSE <<>>
        footer == IF IssueMetadataKey \in DOMAIN m.Metadata /\ IssueFooterConfig(cfg).Key # <<>>
                  THEN (IF breaking # <<>> THEN breaking \o <<"\n">> ELSE <<>>)
                          \o formatIssueFooter(IssueFooterConfig(cfg), m.Metadata[IssueMetadataKey])
                  ELSE breaking
    IN <<header, m.Body, footer>>

\* mutant: a detached HEAD is skipped unless skip-detached is false
SkipBranch_NilSkips(branchesCfg, branch, detached) ==
    \/ contains(branch, branchesCfg.Skip)
    \/ (branchesCfg.SkipDetached = Nil \/ branchesCfg.SkipDetached.value) /\ detached

\* SkipBranch; SkipDetached is a *bool: Nil, or [value |-> b] for &b
SkipBranch(branchesCfg, branch, detached) ==
    \/ contains(branch, branchesCfg.Skip)
    \/ branchesCfg.SkipDetached # Nil /\ branchesCfg.SkipDetached.value /\ detached

----------------------------------------------------------------------------
(* sv/releasenotes.go.  Section names and commit types are only compared,  *)
(* they are TLA+ strings; author names are sorted by the formatter, they   *)
(* are sequences of characters.  Version, tag and date of a release note   *)
(* are handed through by Create and left out.                              *)

ReleaseNotesSectionTypeCommits == "commits"
ReleaseNotesSectionTypeBreakingChanges == "breaking-changes"

\* what a run of Create ends with when an index is out of range
Panic == [panic |-> "index out of range"]

\* the zero value of an element of []ReleaseNoteSection (a nil interface)
NilSection == [nilSection |-> TRUE]

\* ReleaseNoteBreakingChangeSection{}
ZeroBreakingChangeSection == [Name |-> "", Messages |-> <<>>]

\* the method SectionType of the two section structs
SectionType(s) ==
    IF "Items" \in DOMAIN s THEN ReleaseNotesSectionTypeCommits
    ELSE IF "Messages" \in DOMAIN s THEN ReleaseNotesSectionTypeBreakingChanges
    ELSE "nil"

\* ReleaseNotesConfig.sectionConfig: the first entry of the type, or nil
sectionConfig(cfg, sectionType) ==
    LET is == {i \in DOMAIN cfg.Sections : cfg.Sections[i].SectionType = sectionType}
    IN IF is = {} THEN Nil ELSE cfg.Sections[Min(is)]

\* mutant: the first entry that lists a type keeps it
commitSectionMapping_FirstWins(sections) ==
    LET lists(i, t) ==
            /\ sections[i].SectionType = ReleaseNotesSectionTypeCommits
            /\ \E j \in DOMAIN sections[i].CommitTypes : sections[i].CommitTypes[j] = t
        types == {t \in UNION {{sections[i].CommitTypes[j] : j \in DOMAIN sections[i].CommitTypes} :
                                  i \in DOMAIN sections} :
                     \E i \in DOMAIN sections : lists(i, t)}
    IN [t \in types |->
           sections[CHOOSE i \in DOMAIN sections :
                        lists(i, t) /\ \A k \in DOMAIN sections : lists(k, t) => i <= k]]

\* commitSectionMapping: every assignment mapping[commitType] = section
\* replaces an earlier one, so a type maps to the last entry that lists it
commitSectionMapping(sections) ==
    LET lists(i, t) ==
            /\ sections[i].SectionType = ReleaseNotesSectionTypeCommits
            /\ \E j \in DOMAIN sections[i].CommitTypes : sections[i].CommitTypes[j] = t
        types == {t \in UNION {{sections[i].CommitTypes[j] : j \in DOMAIN sections[i].CommitTypes} :
                                  i \in DOMAIN sections} :
                     \E i \in DOMAIN sections : lists(i, t)}
    IN [t \in types |->
           sections[CHOOSE i \in DOMAIN sections :
                        lists(i, t) /\ \A k \in DOMAIN sections : lists(k, t) => k <= i]]

\* mutant: a commit is put in front of the items of its section
collect_Prepend(mapping, acc, c) ==
    LET type == c.Message.Type
        sectionCfg == mapping[type]
        section ==
            IF sectionCfg.Name \in DOMAIN acc.sections THEN acc.sections[sectionCfg.Name]
            ELSE [Name |-> sectionCfg.Name, Types |-> sectionCfg.CommitTypes, Items |-> <<>>]
    IN [sections |->
            IF type \in DOMAIN mapping
            THEN (sectionCfg.Name :> [section EXCEPT !.Items = <<c>> \o @]) @@ acc.sections
            ELSE acc.sections,
        authors |-> acc.authors \cup {c.AuthorName},
        breakingChanges |->
            IF c.Message.IsBreakingChange
            THEN Append(acc.breakingChanges, BreakingMessage(c.Message))
            ELSE acc.breakingChanges]

\* mutant: only the author of a commit that goes to a section is recorded
collect_AuthorsOfMapped(mapping, acc, c) ==
    LET type == c.Message.Type
        sectionCfg == mapping[type]
        section ==
            IF sectionCfg.Name \in DOMAIN acc.sections THEN acc.sections[sectionCfg.Name]
            ELSE [Name |-> sectionCfg.Name, Types |-> sectionCfg.CommitTypes, Items |-> <<>>]
    IN [sections |->
            IF type \in DOMAIN mapping
            THEN (sectionCfg.Name :> [section EXCEPT !.Items = Append(@, c)]) @@ acc.sections
            ELSE acc.sections,
        authors |-> IF type \in DOMAIN mapping THEN acc.authors \cup {c.AuthorName}
                    ELSE acc.authors,
        breakingChanges |->
            IF c.Message.IsBreakingChange
            THEN Append(acc.breakingChanges, BreakingMessage(c.Message))
            ELSE acc.breakingChanges]

\* one turn of the loop of Create over the commits: acc holds the map
\* sections, the set authors and the slice breakingChanges
collect(mapping, acc, c) ==
    LET type == c.Message.Type
        sectionCfg == mapping[type]
        section ==
            IF sectionCfg.Name \in DOMAIN acc.sections THEN acc.sections[sectionCfg.Name]
            ELSE [Name |-> sectionCfg.Name, Types |-> sectionCfg.CommitTypes, Items |-> <<>>]
    IN [sections |->
            IF type \in DOMAIN mapping
            THEN (sectionCfg.Name :> [section EXCEPT !.Items = Append(@, c)]) @@ acc.sections
            ELSE acc.sections,
        authors |-> acc.authors \cup {c.AuthorName},
        breakingChanges |->
            IF c.Message.IsBreakingChange
            THEN Append(acc.breakingChanges, BreakingMessage(c.Message))
            ELSE acc.breakingChanges]

RECURSIVE collectAll(_, _, _, _)
collectAll(mapping, cs, i, acc) ==
    IF i > Len(cs) THEN acc
    ELSE collectAll(mapping, cs, i + 1, collect(mapping, acc, cs[i]))

\* the assignments sections[i] = ... of toReleaseNoteSections, in the order
\* in which the loop over the configuration makes them
RECURSIVE assigned(_, _, _, _, _)
assigned(cfgs, j, commitSections, breakingChange, hasBreaking) ==
    IF j > Len(cfgs) THEN <<>>
    ELSE LET cfg == cfgs[j]
             first == IF cfg.SectionType = ReleaseNotesSectionTypeBreakingChanges
                         /\ hasBreaking > 0
                      THEN <<breakingChange>> ELSE <<>>
             second == IF cfg.SectionType = ReleaseNotesSectionTypeCommits
                          /\ cfg.Name \in DOMAIN commitSections
                       THEN <<commitSections[cfg.Name]>> ELSE <<>>
         IN first \o second
              \o assigned(cfgs, j + 1, commitSections, breakingChange, hasBreaking)

\* mutant: one element is allocated for every entry of the configuration
toReleaseNoteSections_AllocAll(cfg, commitSections, breakingChange) ==
    LET hasBreaking == IF breakingChange.Name # "" THEN 1 ELSE 0
        n == Len(cfg.Sections)
        writes == assigned(cfg.Sections, 1, commitSections, breakingChange, hasBreaking)
    IN IF Len(writes) > n THEN <<<<>>, TRUE>>
       ELSE <<writes \o [k \in 1..(n - Len(writes)) |-> NilSection], FALSE>>

\* toReleaseNoteSections: a slice of len(commitSections)+hasBreaking
\* elements is made and filled from index 0 on; an assignment beyond its
\* end panics, elements never assigned stay nil.  Returns <<sections,
\* panicked>>.
toReleaseNoteSections(cfg, commitSections, breakingChange) ==
    LET hasBreaking == IF breakingChange.Name # "" THEN 1 ELSE 0
        n == Cardinality(DOMAIN commitSections) + hasBreaking
        writes == assigned(cfg.Sections, 1, commitSections, breakingChange, hasBreaking)
    IN IF Len(writes) > n THEN <<<<>>, TRUE>>
       ELSE <<writes \o [k \in 1..(n - Len(writes)) |-> NilSection], FALSE>>

\* Create returns the ReleaseNote, or does not return (Panic)
Create(cfg, cs) ==
    LET mapping == commitSectionMapping(cfg.Sections)
        acc == collectAll(mapping, cs, 1,
                          [sections |-> <<>>, authors |-> {}, breakingChanges |-> <<>>])
        bcCfg == sectionConfig(cfg, ReleaseNotesSectionTypeBreakingChanges)
        breakingChangeSection ==
            IF bcCfg # Nil /\ Len(acc.breakingChanges) > 0
            THEN [Name |-> bcCfg.Name, Messages |-> acc.breakingChanges]
            ELSE ZeroBreakingChangeSection
        sections == toReleaseNoteSections(cfg, acc.sections, breakingChangeSection)
    IN IF sections[2] THEN Panic
       ELSE [Sections |-> sections[1], AuthorsNames |-> acc.authors]

\* the bytes of the characters of author names, in ascending order
Bytes == <<"B", "a", "b">>
Byte(c) == CHOOSE i \in DOMAIN Bytes : Bytes[i] = c

\* s < t for Go strings: bytewise, a proper prefix first
StringLess(s, t) ==
    \E k \in 1..(Len(t)) :
        /\ k <= Len(s) + 1
        /\ \A j \in 1..(k - 1) : s[j] = t[j]
        /\ k = Len(s) + 1 \/ Byte(s[k]) < Byte(t[k])

\* sort.Strings on the elements of a set of strings
RECURSIVE SortStrings(_)
SortStrings(S) ==
    IF S = {} THEN <<>>
    ELSE LET m == CHOOSE x \in S : \A y \in S : x = y \/ StringLess(x, y)
         IN <<m>> \o SortStrings(S \ {m})

\* toSortedArray: the keys of the map, sorted
toSortedArray(input) == SortStrings(input)

\* releaseNoteVariables, reduced to the sections and the author names
releaseNoteVariables(releasenote) ==
    [Sections |-> releasenote.Sections,
     AuthorNames |-> toSortedArray(releasenote.AuthorsNames)]

----------------------------------------------------------------------------
(* Inputs *)


SeqsUpTo(S, n) == UNION {[1..k -> S] : k \in 0..n}

CommitLists == SeqsUpTo(CommitLog, MaxCommits)

RECURSIVE Concat(_)
Concat(ss) == IF ss = <<>> THEN <<>> ELSE Head(ss) \o Concat(Tail(ss))

RECURSIVE JoinLines(_)
JoinLines(ls) ==
    IF ls = <<>> THEN <<>>
    ELSE IF Len(ls) = 1 THEN ls[1]
    ELSE ls[1] \o <<"\n">> \o JoinLines(Tail(ls))

\* Subjects: [text before the type] type [scope] [!] separator description
SubjectPrefixes == {<<>>, <<"X">>, <<"X", " ">>}
SubjectTypes == {<<"a", "b">>}
SubjectScopes == {<<>>, <<"(", ")">>, <<"(", "s", ")">>, <<"(", "s">>}
SubjectBangs == {<<>>, <<"!">>}
SubjectSeparators == {<<":", " ">>, <<":">>}
DescriptionParts == {<<"c">>, <<" ">>, <<"(", "d", ")">>, <<":", " ">>, <<"!">>}
Descriptions == {Concat(ps) : ps \in SeqsUpTo(DescriptionParts, MaxDescParts)}

Subjects ==
    {pre \o ty \o sc \o bg \o sep \o de :
        pre \in SubjectPrefixes, ty \in SubjectTypes, sc \in SubjectScopes,
        bg \in SubjectBangs, sep \in SubjectSeparators, de \in Descriptions}

\* the subjects that are parsed together with a body
BodySubjects ==
    {<<"a", "b", ":", " ", "c">>, <<"a", "b", "!", ":", " ", "c">>, <<"X">>}

\* Lines of a body: text, footers of the keys k (synonyms s, t) and r in
\* colon and in hash style, with and without a value, at the start and in
\* the middle of a line, and breaking-change footers
BodyLines ==
    {<<>>,
     <<"k", ":", " ", "v">>, <<"k", ":", " ">>, <<"x", " ", "k", ":", " ", "z">>,
     <<"s", ":", " ", "w">>, <<"t", ":", " ", "u">>,
     <<"k", " ", "#", "v">>, <<"s", " ", "#", "w">>, <<"r", " ", "#", "n">>,
     <<"k", ":", " ", "v", "\r">>,
     BreakingChangeFooterKey \o <<":", " ", "m">>,
     BreakingChangeFooterKey \o <<":", " ">>,
     <<"x", " ">> \o BreakingChangeFooterKey \o <<":", " ", "n">>}

Bodies == {JoinLines(ls) : ls \in SeqsUpTo(BodyLines, MaxLines)}

Footer(key, synonyms, useHash) ==
    [Key |-> key, KeySynonyms |-> synonyms, UseHash |-> useHash]

\* the footer maps of the configurations
FooterConfigs ==
    {EmptyMap,
     [issue |-> Footer(<<"k">>, <<>>, FALSE)],
     [issue |-> Footer(<<"k">>, <<<<"s">>, <<"t">>>>, FALSE)],
     [issue |-> Footer(<<"k">>, <<<<"t">>, <<"s">>>>, FALSE)],
     [issue |-> Footer(<<>>, <<<<"s">>>>, FALSE)],
     [issue |-> Footer(<<"k">>, <<<<"s">>>>, TRUE)],
     [issue |-> Footer(<<"k">>, <<<<"s">>>>, FALSE), refs |-> Footer(<<"r">>, <<>>, TRUE)]}

\* CommitMessageConfig, reduced to the fields Parse reads
CommitMessageConfig ==
    [HeaderSelector : {""}, Footer : FooterConfigs]
      \cup [HeaderSelector : HeaderSelectors \ {""},
            Footer : {[issue |-> Footer(<<"k">>, <<>>, FALSE)]}]

\* the calls of Parse: every subject with an empty body, and the subjects
\* of BodySubjects with every body
ParseInputs == (Subjects \X {<<>>}) \cup (BodySubjects \X Bodies)

----------------------------------------------------------------------------
(* The version resolver as a state machine: a processor is constructed,    *)
(* then one of its operations is applied to an arbitrary input.  The       *)
(* operations are pure (they read p and their arguments only), so a        *)
(* behaviour records one call.                                             *)

\* ValidateCommitMessageHandler does not run
NoHook ==
    /\ pc = "none"
    /\ file = <<>>
    /\ appends = 0
    /\ hook = Nil

\* BranchesConfig{} and ReleaseNotesConfig{}
ZeroBranchesConfig ==
    [Prefix |-> "", Suffix |-> "", DisableIssue |-> FALSE, Skip |-> <<>>, SkipDetached |-> Nil]
ZeroReleaseNotesConfig == [Sections |-> <<>>]

\* no message processor, no release note processor and no call of theirs
NoCall ==
    /\ bcfg = ZeroBranchesConfig
    /\ rcfg = ZeroReleaseNotesConfig
    /\ args = <<>>
    /\ ret = <<>>

InitVersion ==
    /\ NoHook
    /\ NoCall
    /\ op = "NewSemVerCommitProcessor"
    /\ vcfg \in VersioningConfig
    /\ \E types \in KnownTypeLists : p = NewSemVerCommitProcessor(vcfg, types)
    /\ commit = [Type |-> "feat", IsBreakingChange |-> FALSE]
    /\ vtype = none
    /\ version = Nil
    /\ commits = <<>>
    /\ newVersion = Nil
    /\ updated = FALSE
    /\ mcfg = [HeaderSelector |-> "", Footer |-> EmptyMap]
    /\ subject = <<>>
    /\ body = <<>>
    /\ msg = ZeroCommitMessage
    /\ err = NoError

VersionTypeToUpdateCall ==
    /\ op = "NewSemVerCommitProcessor"
    /\ \E c \in CommitLog :
           /\ op' = "versionTypeToUpdate"
           /\ commit' = c
           /\ vtype' = versionTypeToUpdate(p, c)
           /\ UNCHANGED <<vcfg, p, version, commits, newVersion, updated, parserVars, callVars, hookVars>>

NextVersionCall ==
    /\ op = "NewSemVerCommitProcessor"
    /\ \E v \in Versions \cup {Nil}, cs \in CommitLists :
           LET r == NextVersion(p, v, cs)
           IN /\ op' = "NextVersion"
              /\ version' = v
              /\ commits' = cs
              /\ newVersion' = r[1]
              /\ updated' = r[2]
              /\ UNCHANGED <<vcfg, p, commit, vtype, parserVars, callVars, hookVars>>

NextVersionResolver == VersionTypeToUpdateCall \/ NextVersionCall

SpecVersion == InitVersion /\ [][NextVersionResolver]_vars

----------------------------------------------------------------------------
(* The message parser as a state machine: a processor is constructed with  *)
(* a configuration, then Parse is applied to a subject and a body.         *)

InitParse ==
    /\ NoHook
    /\ NoCall
    /\ op = "NewMessageProcessor"
    /\ mcfg \in CommitMessageConfig
    /\ subject = <<>>
    /\ body = <<>>
    /\ msg = ZeroCommitMessage
    /\ err = NoError
    /\ vcfg = [UpdateMajor |-> {}, UpdateMinor |-> {}, UpdatePatch |-> {}, IgnoreUnknown |-> FALSE]
    /\ p = NewSemVerCommitProcessor(vcfg, <<>>)
    /\ commit = [Type |-> "feat", IsBreakingChange |-> FALSE]
    /\ vtype = none
    /\ version = Nil
    /\ commits = <<>>
    /\ newVersion = Nil
    /\ updated = FALSE

ParseCall ==
    /\ op = "NewMessageProcessor"
    /\ \E in \in ParseInputs :
           LET r == Parse(mcfg, in[1], in[2])
           IN /\ op' = "Parse"
              /\ subject' = in[1]
              /\ body' = in[2]
              /\ msg' = r[1]
              /\ err' = r[2]
              /\ UNCHANGED <<mcfg, resolverVars, callVars, hookVars>>

NextParser == ParseCall

SpecParse == InitParse /\ [][NextParser]_vars

----------------------------------------------------------------------------
(* Values of the variables a specification does not use *)

NoResolver ==
    /\ vcfg = [UpdateMajor |-> {}, UpdateMinor |-> {}, UpdatePatch |-> {}, IgnoreUnknown |-> FALSE]
    /\ p = NewSemVerCommitProcessor(vcfg, <<>>)
    /\ commit = [Type |-> "feat", IsBreakingChange |-> FALSE]
    /\ vtype = none
    /\ version = Nil
    /\ commits = <<>>
    /\ newVersion = Nil
    /\ updated = FALSE

NoParseCall ==
    /\ subject = <<>>
    /\ body = <<>>
    /\ msg = ZeroCommitMessage
    /\ err = NoError

----------------------------------------------------------------------------
(* extractFooterMetadata, a function of the package, applied to a key, a   *)
(* text and the style flag.                                                *)

FooterKeys == {<<"k">>, <<"s">>, <<"r">>, BreakingChangeFooterKey}

\* the lines of a body, and lines whose first word only ends with the key k
FooterLines ==
    BodyLines \cup {<<"s", "k", ":", " ", "y">>, <<"s", "k", " ", "#", "y">>}

FooterTexts == {JoinLines(ls) : ls \in SeqsUpTo(FooterLines, MaxLines)}

InitFooter ==
    /\ NoHook
    /\ op = "sv"
    /\ NoResolver
    /\ mcfg = [HeaderSelector |-> "", Footer |-> EmptyMap]
    /\ NoParseCall
    /\ NoCall

ExtractFooterMetadataCall ==
    /\ op = "sv"
    /\ \E key \in FooterKeys, text \in FooterTexts, useHash \in BOOLEAN :
           /\ op' = "extractFooterMetadata"
           /\ args' = [key |-> key, text |-> text, useHash |-> useHash]
           /\ ret' = extractFooterMetadata(key, text, useHash)
           /\ UNCHANGED <<resolverVars, parserVars, bcfg, rcfg, hookVars>>

NextFooter == ExtractFooterMetadataCall

SpecFooter == InitFooter /\ [][NextFooter]_vars

----------------------------------------------------------------------------
(* Validate: a message processor is constructed with a configuration, then *)
(* Validate is applied to a raw message.  subject, body, msg and err hold  *)
(* the Parse call that Validate makes.                                     *)

\* types written in the subjects; "a+b" passes the subject check of
\* Validate although "+" is no part of a type for Parse
ValidateSubjectTypes == {<<"a", "b">>, <<"f">>, <<"a", "+", "b">>}

ValidateDescriptions == {<<>>, <<"c">>, <<"(", "d", ")">>, <<"c", " ">>}

ValidateSubjects ==
    {pre \o ty \o sc \o bg \o sep \o de :
        pre \in SubjectPrefixes, ty \in ValidateSubjectTypes, sc \in SubjectScopes,
        bg \in SubjectBangs, sep \in SubjectSeparators, de \in ValidateDescriptions}

\* raw messages: a subject alone, a subject followed by one body line, and
\* messages with CR LF line ends and with a final line feed
ValidateMessages ==
    ValidateSubjects
      \cup {s \o <<"\n">> \o b : s \in BodySubjects, b \in BodyLines}
      \cup {<<>>,
            <<"a", "b", ":", " ", "c", "\n">>,
            <<"a", "b", ":", " ", "c", "\r", "\n", "k", ":", " ", "v", "\r", "\n">>}

\* CommitMessageConfig, with the fields Validate reads
ValidateConfigs ==
    [HeaderSelector : {"", "(", "X (?P<header>.*)"},
     Footer : {[issue |-> Footer(<<"k">>, <<>>, FALSE)]},
     Types : {<<<<"a", "b">>>>, <<<<"b">>, <<"f">>>>},
     Scope : [Values : {<<>>, <<<<"s">>>>, <<<<>>, <<"s">>>>}]]

InitValidate ==
    /\ NoHook
    /\ op = "NewMessageProcessor"
    /\ mcfg \in ValidateConfigs
    /\ NoResolver
    /\ NoParseCall
    /\ NoCall

ValidateCall ==
    /\ op = "NewMessageProcessor"
    /\ \E message \in ValidateMessages :
           LET split == splitCommitMessageContent(message)
               parsed == Parse(mcfg, split[1], split[2])
           IN /\ op' = "Validate"
              /\ args' = [message |-> message]
              /\ subject' = split[1]
              /\ body' = split[2]
              /\ msg' = parsed[1]
              /\ err' = parsed[2]
              /\ ret' = Validate(mcfg, message)
              /\ UNCHANGED <<mcfg, resolverVars, bcfg, rcfg, hookVars>>

NextValidate == ValidateCall

SpecValidate == InitValidate /\ [][NextValidate]_vars

----------------------------------------------------------------------------
(* Enhance: a message processor is constructed with a message and a        *)
(* branches configuration, then Enhance is applied to a branch name and a  *)
(* raw message.  subject, body, msg and err hold what Parse makes of the   *)
(* same message.                                                           *)

IssueFooter(key, useHash, prefix) ==
    [Key |-> key, KeySynonyms |-> <<<<"s">>>>, UseHash |-> useHash, AddValuePrefix |-> prefix]

\* footer maps: without an issue entry, with an issue entry in colon and in
\* hash style, with and without a value prefix, and with an empty key
EnhanceFooters ==
    {EmptyMap,
     [refs |-> IssueFooter(<<"r">>, TRUE, <<>>)],
     [issue |-> IssueFooter(<<>>, FALSE, <<>>)]}
      \cup {[issue |-> IssueFooter(<<"k">>, h, pre)] : h \in BOOLEAN, pre \in {<<>>, <<"#">>}}

EnhanceConfigs ==
    [HeaderSelector : {""}, Footer : EnhanceFooters, Issue : [Regex : IssueRegexes]]

\* the branches configuration of the tests
newBranchCfg ==
    [Prefix |-> "([a-z]+\\/)?", Suffix |-> "(-.*)?", DisableIssue |-> FALSE,
     Skip |-> <<>>, SkipDetached |-> Nil]

\* every prefix and suffix with issue tracking, and the configuration of
\* the tests without it
BranchesConfigs ==
    [Prefix : BranchPrefixes, Suffix : BranchSuffixes, DisableIssue : {FALSE},
     Skip : {<<>>}, SkipDetached : {Nil}]
      \cup {[newBranchCfg EXCEPT !.DisableIssue = TRUE]}

Branches ==
    {<<>>, <<"f">>, <<"J", "-", "1">>, <<"f", "/", "J", "-", "1">>,
     <<"f", "/", "J", "-", "1", "-", "x">>, <<"f", " ", "/", "J", "-", "1">>,
     <<"#", "1", "3">>, <<"f", "/", "1", "3">>}

\* lines after the subject: issue footers of the key k in both styles, one
\* without a value, a footer of the synonym s, and text
EnhanceLines ==
    {<<"k", ":", " ", "v">>, <<"k", " ", "#", "v">>, <<"k", ":", " ">>,
     <<"s", ":", " ", "w">>, <<"x">>}

\* raw messages: a subject with up to MaxLines lines after it, subjects of
\* the shape of an issue footer, a message with CR LF line ends, and
\* messages with a breaking-change footer, with a key in the middle of a
\* line, with a footer after a paragraph and with a number before ": "
EnhanceMessages ==
    {JoinLines(<<<<"a", "b", ":", " ", "c">>>> \o ls) : ls \in SeqsUpTo(EnhanceLines, MaxLines)}
      \cup {<<"k", ":", " ", "v">>, <<"k", " ", "#", "v">>,
            <<"a", "b", ":", " ", "c", "\r", "\n", "k", ":", " ", "v", "\r", "\n">>,
            <<"a", "b", ":", " ", "c", "\n">> \o BreakingChangeFooterKey \o <<":", " ", "m">>,
            <<"a", "b", ":", " ", "c", "\n", "x", " ", "k", ":", " ", "v">>,
            <<"a", "b", ":", " ", "c", "\n", "x", "\n", "\n", "A", "-", "b", " ", "#", "t">>,
            <<"a", "b", ":", " ", "c", "\n", "1", ":", " ", "t">>}

InitEnhance ==
    /\ NoHook
    /\ op = "NewMessageProcessor"
    /\ mcfg \in EnhanceConfigs
    /\ bcfg \in BranchesConfigs
    /\ rcfg = ZeroReleaseNotesConfig
    /\ args = Nil
    /\ ret = Nil
    /\ NoResolver
    /\ NoParseCall

EnhanceCall ==
    /\ op = "NewMessageProcessor"
    /\ \E branch \in Branches, message \in EnhanceMessages :
           LET split == splitCommitMessageContent(message)
               parsed == Parse(mcfg, split[1], split[2])
           IN /\ op' = "Enhance"
              /\ args' = [branch |-> branch, message |-> message]
              /\ subject' = split[1]
              /\ body' = split[2]
              /\ msg' = parsed[1]
              /\ err' = parsed[2]
              /\ ret' = Enhance(bcfg, mcfg, branch, message)
              /\ UNCHANGED <<mcfg, resolverVars, bcfg, rcfg, hookVars>>

IssueIDCall ==
    /\ op = "NewMessageProcessor"
    /\ \E branch \in Branches :
           /\ op' = "IssueID"
           /\ args' = [branch |-> branch]
           /\ ret' = IssueID(bcfg, mcfg, branch)
           /\ UNCHANGED <<parserVars, resolverVars, bcfg, rcfg, hookVars>>

\* text put after the message on a line of its own
AppendLine(message, text) ==
    message \o (IF message # <<>> /\ message[Len(message)] = "\n" THEN <<>> ELSE <<"\n">>)
            \o text

\* Enhance again, on the message with the footer it returned
EnhanceAgainCall ==
    /\ op = "Enhance"
    /\ ret[2] = NoError
    /\ ret[1] # <<>>
    /\ LET message == AppendLine(args.message, ret[1])
           split == splitCommitMessageContent(message)
           parsed == Parse(mcfg, split[1], split[2])
       IN /\ op' = "EnhanceAgain"
          /\ args' = [branch |-> args.branch, message |-> message, footer |-> ret[1]]
          /\ subject' = split[1]
          /\ body' = split[2]
          /\ msg' = parsed[1]
          /\ err' = parsed[2]
          /\ ret' = Enhance(bcfg, mcfg, args.branch, message)
          /\ UNCHANGED <<mcfg, resolverVars, bcfg, rcfg, hookVars>>

NextEnhance == EnhanceCall \/ IssueIDCall \/ EnhanceAgainCall

SpecEnhance == InitEnhance /\ [][NextEnhance]_vars

----------------------------------------------------------------------------
(* Format: a message processor is constructed, then Format is applied to   *)
(* a commit message, or Parse is applied to a subject with an empty body,  *)
(* Format to its result, and Parse again to the header and the footer that *)
(* Format returned.  Enhance is applied with the same configurations: it   *)
(* formats its footer as Format does.                                      *)

FormatFooters ==
    {EmptyMap, [issue |-> IssueFooter(<<>>, FALSE, <<>>)]}
      \cup {[issue |-> IssueFooter(<<"k">>, h, pre)] : h \in BOOLEAN, pre \in {<<>>, <<"#">>}}

FormatConfigs ==
    [HeaderSelector : {""}, Footer : FormatFooters,
     Issue : [Regex : {"[A-Z]+-[0-9]+", "#?[0-9]+"}]]

\* issue ids of a message: none, a number and letters-number, with and
\* without a leading "#"
IssueIds == {<<>>, <<"1", "3">>, <<"#", "1", "3">>, <<"J", "-", "1">>}

FormatMessages ==
    {NewCommitMessage(<<"a", "b">>, scope, <<"c">>, bdy, issue, breaking) :
        scope \in {<<>>, <<"s">>}, bdy \in {<<>>, <<"x">>}, issue \in IssueIds,
        breaking \in {<<>>, <<"m">>}}
      \cup {ZeroCommitMessage}

\* subjects that are parsed and formatted: those given to Validate, and
\* one with parentheses and ": " in its description
FormatSubjects ==
    ValidateSubjects
      \cup {<<"a", "b", "(", "s", ")", "!", ":", " ", "(", "d", ")", ":", " ", "c">>}

InitFormat ==
    /\ NoHook
    /\ op = "NewMessageProcessor"
    /\ mcfg \in FormatConfigs
    /\ bcfg = newBranchCfg
    /\ rcfg = ZeroReleaseNotesConfig
    /\ args = Nil
    /\ ret = Nil
    /\ NoResolver
    /\ NoParseCall

FormatCall ==
    /\ op = "NewMessageProcessor"
    /\ \E m \in FormatMessages :
           /\ op' = "Format"
           /\ msg' = m
           /\ args' = [msg |-> m]
           /\ ret' = Format(mcfg, m)
           /\ UNCHANGED <<mcfg, subject, body, err, resolverVars, bcfg, rcfg, hookVars>>

ParseSubjectCall ==
    /\ op = "NewMessageProcessor"
    /\ \E subj \in FormatSubjects :
           LET r == Parse(mcfg, subj, <<>>)
           IN /\ op' = "Parse"
              /\ subject' = subj
              /\ body' = <<>>
              /\ msg' = r[1]
              /\ err' = r[2]
              /\ UNCHANGED <<mcfg, resolverVars, callVars, hookVars>>

FormatParsedCall ==
    /\ op = "Parse"
    /\ err = NoError
    /\ op' = "FormatParsed"
    /\ args' = [subject |-> subject, msg |-> msg]
    /\ ret' = Format(mcfg, msg)
    /\ UNCHANGED <<mcfg, subject, body, msg, err, resolverVars, bcfg, rcfg, hookVars>>

ParseFormattedCall ==
    /\ op = "FormatParsed"
    /\ LET r == Parse(mcfg, ret[1], ret[3])
       IN /\ op' = "ParseFormatted"
          /\ subject' = ret[1]
          /\ body' = ret[3]
          /\ msg' = r[1]
          /\ err' = r[2]
          /\ UNCHANGED <<mcfg, resolverVars, callVars, hookVars>>

NextFormat ==
    FormatCall \/ EnhanceCall \/ ParseSubjectCall \/ FormatParsedCall \/ ParseFormattedCall

SpecFormat == InitFormat /\ [][NextFormat]_vars

----------------------------------------------------------------------------
(* SkipBranch: a message processor is constructed with a branches          *)
(* configuration, then SkipBranch is applied to a branch name and the      *)
(* detached flag.                                                          *)

SkipEntries == {<<"m", "a">>, <<"d">>}

SkipConfigs ==
    [Prefix : {""}, Suffix : {""}, DisableIssue : {FALSE},
     Skip : SeqsUpTo(SkipEntries, MaxSkip),
     SkipDetached : {Nil, [value |-> FALSE], [value |-> TRUE]}]

\* branch names: the entries, the beginning of one, one with more after
\* it, and another name
SkipBranches == SkipEntries \cup {<<"m">>, <<"m", "a", "x">>, <<"J", "-", "1">>}

InitSkip ==
    /\ NoHook
    /\ op = "NewMessageProcessor"
    /\ mcfg = [HeaderSelector |-> "", Footer |-> EmptyMap]
    /\ bcfg \in SkipConfigs
    /\ rcfg = ZeroReleaseNotesConfig
    /\ args = Nil
    /\ ret = Nil
    /\ NoResolver
    /\ NoParseCall

SkipBranchCall ==
    /\ op = "NewMessageProcessor"
    /\ \E branch \in SkipBranches, detached \in BOOLEAN :
           /\ op' = "SkipBranch"
           /\ args' = [branch |-> branch, detached |-> detached]
           /\ ret' = SkipBranch(bcfg, branch, detached)
           /\ UNCHANGED <<parserVars, resolverVars, bcfg, rcfg, hookVars>>

NextSkip == SkipBranchCall

SpecSkip == InitSkip /\ [][NextSkip]_vars

----------------------------------------------------------------------------
(* The commit-message hook: ValidateCommitMessageHandler, one action for   *)
(* each of its steps.  hook holds what it is started with (the branch and  *)
(* the detached state that git reports, the source flag, the content of    *)
(* the file) and its local variables; reading and appending can fail.      *)

errReadCommitMessage == "errReadCommitMessage"
errAppendFooter == "errAppendFooter"

HookConfigs ==
    [HeaderSelector : {""},
     Footer : {EmptyMap, [issue |-> IssueFooter(<<"k">>, FALSE, <<>>)]},
     Types : {<<<<"a", "b">>>>},
     Scope : [Values : {<<>>}],
     Issue : [Regex : {"[A-Z]+-[0-9]+", "("}]]

HookBranchesConfigs ==
    {[newBranchCfg EXCEPT !.Skip = <<<<"d">>>>, !.SkipDetached = sd] :
        sd \in {Nil, [value |-> TRUE]}}

\* g.Branch()
HookBranches == {<<"d">>, <<"f">>, <<"f", "/", "J", "-", "1">>}

\* g.IsDetached(): <<detached, an error occurred>>
IsDetachedResults == {<<FALSE, FALSE>>, <<TRUE, FALSE>>, <<FALSE, TRUE>>}

HookSources == {"merge", "message"}

\* commit-message files: a valid message, one that is not valid, one with
\* the issue footer and one with another footer and a final line feed
HookFiles ==
    {<<"a", "b", ":", " ", "c">>,
     <<"X">>,
     <<"a", "b", ":", " ", "c", "\n", "k", ":", " ", "v">>,
     <<"a", "b", ":", " ", "c", "\n", "s", ":", " ", "w", "\n">>}

InitHook ==
    /\ op = "ValidateCommitMessageHandler"
    /\ mcfg \in HookConfigs
    /\ bcfg \in HookBranchesConfigs
    /\ rcfg = ZeroReleaseNotesConfig
    /\ args = Nil
    /\ ret = Nil
    /\ NoResolver
    /\ NoParseCall
    /\ pc = "SkipBranch"
    /\ file \in HookFiles
    /\ appends = 0
    /\ \E branch \in HookBranches, d \in IsDetachedResults, source \in HookSources :
           hook = [branch |-> branch, detached |-> d[1], derr |-> d[2], source |-> source,
                   content |-> file, read |-> FALSE, commitMessage |-> <<>>,
                   msg |-> <<>>, result |-> NoError]

\* the handler returns
Return(result) ==
    /\ pc' = "done"
    /\ hook' = [hook EXCEPT !.result = result]

HookSkipBranch ==
    /\ pc = "SkipBranch"
    /\ IF SkipBranch(bcfg, hook.branch, ~hook.derr /\ hook.detached)
       THEN Return(NoError)
       ELSE pc' = "source" /\ UNCHANGED hook
    /\ UNCHANGED <<op, resolverVars, parserVars, callVars, file, appends>>

HookSource ==
    /\ pc = "source"
    /\ IF hook.source = "merge"
       THEN Return(NoError)
       ELSE pc' = "readFile" /\ UNCHANGED hook
    /\ UNCHANGED <<op, resolverVars, parserVars, callVars, file, appends>>

HookReadFile ==
    /\ pc = "readFile"
    /\ \/ pc' = "Validate" /\ hook' = [hook EXCEPT !.read = TRUE, !.commitMessage = file]
       \/ Return(errReadCommitMessage)
    /\ UNCHANGED <<op, resolverVars, parserVars, callVars, file, appends>>

\* mutant: a message that is not valid is enhanced all the same
HookValidate_Ignored ==
    /\ pc = "Validate"
    /\ pc' = "Enhance"
    /\ UNCHANGED <<op, resolverVars, parserVars, callVars, file, appends, hook>>

HookValidate ==
    /\ pc = "Validate"
    /\ IF Validate(mcfg, hook.commitMessage) # NoError
       THEN Return(errReadCommitMessage)
       ELSE pc' = "Enhance" /\ UNCHANGED hook
    /\ UNCHANGED <<op, resolverVars, parserVars, callVars, file, appends>>

HookEnhance ==
    /\ pc = "Enhance"
    /\ LET r == Enhance(bcfg, mcfg, hook.branch, hook.commitMessage)
       IN IF r[2] # NoError THEN Return(NoError)
          ELSE IF r[1] = <<>> THEN Return(NoError)
          ELSE pc' = "appendOnFile" /\ hook' = [hook EXCEPT !.msg = r[1]]
    /\ UNCHANGED <<op, resolverVars, parserVars, callVars, file, appends>>

\* appendOnFile: OpenFile fails and nothing is written, or WriteString
\* writes the message, or it fails after a part of it
HookAppendOnFile ==
    /\ pc = "appendOnFile"
    /\ \/ Return(errAppendFooter) /\ UNCHANGED <<file, appends>>
       \/ /\ file' = file \o hook.msg
          /\ appends' = appends + 1
          /\ Return(NoError)
       \/ \E n \in 0..(Len(hook.msg) - 1) :
             /\ file' = file \o SubSeq(hook.msg, 1, n)
             /\ appends' = appends + 1
             /\ Return(errAppendFooter)
    /\ UNCHANGED <<op, resolverVars, parserVars, callVars>>

NextHook ==
    \/ HookSkipBranch
    \/ HookSource
    \/ HookReadFile
    \/ HookValidate
    \/ HookEnhance
    \/ HookAppendOnFile

SpecHook == InitHook /\ [][NextHook]_vars

----------------------------------------------------------------------------
(* Release notes: a release note processor is constructed with a section   *)
(* configuration, Create is applied to a commit list, and the formatter    *)
(* takes the template variables from the release note that Create returned.*)

SectionCfg(name, sectionType, commitTypes) ==
    [Name |-> name, SectionType |-> sectionType, CommitTypes |-> commitTypes]

Features == SectionCfg("Features", "commits", <<"feat">>)
Fixes == SectionCfg("Fixes", "commits", <<"fix">>)
Changes == SectionCfg("Changes", "commits", <<"feat", "fix">>)
\* the name of Features with other types, and with the same types
FeaturesOfFix == SectionCfg("Features", "commits", <<"fix">>)
Breaking == SectionCfg("Breaking Changes", "breaking-changes", <<>>)
Incompatible == SectionCfg("Incompatible", "breaking-changes", <<>>)
Unnamed == SectionCfg("", "breaking-changes", <<>>)
Other == SectionCfg("Other", "other", <<"feat">>)

\* the section configurations of the model, among them: a type listed by
\* two entries, two commits entries of one name, two breaking-changes
\* entries, an entry of an unsupported type, an entry without a name
SectionConfigs ==
    {<<>>,
     <<Features>>,
     <<Features, Fixes>>,
     <<Features, Fixes, Breaking>>,
     <<Breaking, Fixes, Features>>,
     <<Fixes, Breaking, Features>>,
     <<Features, Changes>>,
     <<Changes, Features, Breaking>>,
     <<Features, FeaturesOfFix>>,
     <<Features, Features>>,
     <<Breaking, Incompatible>>,
     <<Features, Breaking, Incompatible>>,
     <<Other, Fixes>>,
     <<Other>>,
     <<Unnamed, Features>>}

ReleaseNotesConfigs == [Sections : SectionConfigs]

\* the names of commit authors
AuthorNames == {<<"a">>, <<"a", "b">>, <<"B">>}

\* the i-th commit of a list: its hash tells it from the others, and a
\* breaking commit carries the breaking-change message that Parse stored
NoteCommit(i, f) ==
    [Hash |-> i,
     AuthorName |-> f.AuthorName,
     Message |-> [Type |-> f.Type,
                  IsBreakingChange |-> f.IsBreakingChange,
                  Metadata |-> IF f.IsBreakingChange
                               THEN (BreakingChangeMetadataKey :> <<"m", ToString(i)>>)
                               ELSE EmptyMap]]

NoteCommitLists ==
    {[i \in DOMAIN fs |-> NoteCommit(i, fs[i])] :
        fs \in SeqsUpTo([Type : CommitTypes, AuthorName : AuthorNames,
                         IsBreakingChange : BOOLEAN], MaxCommits)}

InitReleaseNote ==
    /\ NoHook
    /\ op = "NewReleaseNoteProcessor"
    /\ rcfg \in ReleaseNotesConfigs
    /\ bcfg = ZeroBranchesConfig
    /\ args = <<>>
    /\ ret = <<>>
    /\ mcfg = [HeaderSelector |-> "", Footer |-> EmptyMap]
    /\ NoResolver
    /\ NoParseCall

CreateCall ==
    /\ op = "NewReleaseNoteProcessor"
    /\ \E cs \in NoteCommitLists :
           /\ op' = "Create"
           /\ args' = [commits |-> cs]
           /\ ret' = Create(rcfg, cs)
           /\ UNCHANGED <<resolverVars, parserVars, bcfg, rcfg, hookVars>>

ReleaseNoteVariablesCall ==
    /\ op = "Create"
    /\ ret # Panic
    /\ op' = "releaseNoteVariables"
    /\ args' = [releasenote |-> ret]
    /\ ret' = releaseNoteVariables(ret)
    /\ UNCHANGED <<resolverVars, parserVars, bcfg, rcfg, hookVars>>

NextReleaseNote == CreateCall \/ ReleaseNoteVariablesCall

SpecReleaseNote == InitReleaseNote /\ [][NextReleaseNote]_vars

----------------------------------------------------------------------------
(* Claims about the version resolver (checked under SpecVersion) *)

\* the largest level any commit of cs asks for, none for the empty list
MaxLevel(proc, cs) ==
    LET S == {versionTypeToUpdate(proc, cs[i]) : i \in DOMAIN cs} \cup {none}
    IN CHOOSE l \in S : \A m \in S : m <= l

V(ma, mi, pa) == [Major |-> ma, Minor |-> mi, Patch |-> pa]

\* C1: versionTypeToUpdate returns one of the four levels for every commit
\* and every rule set, and major whenever the commit is a breaking change,
\* whatever its type and whichever set lists that type.
C1_BreakingDominates ==
    op = "versionTypeToUpdate" =>
        /\ vtype \in {none, patch, minor, major}
        /\ commit.IsBreakingChange => vtype = major

\* a breaking commit whose type is listed as patch only is classified major
C1_Witness ==
    /\ op = "versionTypeToUpdate"
    /\ commit.IsBreakingChange
    /\ commit.Type \in p.PatchVersionTypes
    /\ commit.Type \notin p.MajorVersionTypes \cup p.MinorVersionTypes
    /\ vtype = major

\* C2: for a non-breaking commit the sets are consulted in the order major,
\* minor, patch; a type in none of them is patch iff it is not a known type
\* and ignore-unknown is false, and none otherwise.
C2_Precedence ==
    op = "versionTypeToUpdate" /\ ~commit.IsBreakingChange =>
        LET t == commit.Type
            inMajor == t \in vcfg.UpdateMajor
            inMinor == t \in vcfg.UpdateMinor
            inPatch == t \in vcfg.UpdatePatch
            listed == inMajor \/ inMinor \/ inPatch
            known == \E i \in DOMAIN p.KnownTypes : p.KnownTypes[i] = t
        IN /\ inMajor => vtype = major
           /\ ~inMajor /\ inMinor => vtype = minor
           /\ ~inMajor /\ ~inMinor /\ inPatch => vtype = patch
           /\ ~listed => (vtype = patch <=> (~known /\ ~vcfg.IgnoreUnknown))
           /\ ~listed /\ known => vtype = none
           /\ ~listed /\ vcfg.IgnoreUnknown => vtype = none
           /\ ~listed => vtype \in {patch, none}

\* a known type in none of the sets gives none although ignore-unknown is false
C2_Witness ==
    /\ op = "versionTypeToUpdate"
    /\ ~commit.IsBreakingChange
    /\ ~vcfg.IgnoreUnknown
    /\ commit.Type \notin vcfg.UpdateMajor \cup vcfg.UpdateMinor \cup vcfg.UpdatePatch
    /\ contains(commit.Type, p.KnownTypes)
    /\ vtype = none

\* a type listed in the minor and in the patch set gives minor
C2_WitnessSeveralSets ==
    /\ op = "versionTypeToUpdate"
    /\ ~commit.IsBreakingChange
    /\ commit.Type \in vcfg.UpdateMinor \cap vcfg.UpdatePatch
    /\ commit.Type \notin vcfg.UpdateMajor
    /\ vtype = minor


\* C3: NextVersion returns the same version and the same flag for every
\* permutation of the commit list.
C3_OrderIndependent ==
    op = "NextVersion" =>
        \A f \in Permutations(1..Len(commits)) :
            NextVersion(p, version, [i \in 1..Len(commits) |-> commits[f[i]]])
                = <<newVersion, updated>>

\* a list of two commits of different levels, the larger one first
C3_Witness ==
    /\ op = "NextVersion"
    /\ version # Nil
    /\ Len(commits) >= 2
    /\ versionTypeToUpdate(p, commits[1]) = minor
    /\ versionTypeToUpdate(p, commits[2]) = patch
    /\ newVersion = IncMinor(version)

\* C4: with a current version, a result that would stay in 0.0.x is replaced
\* by the minor increment of the current version: 0.0.z gives 0.1.0 for the
\* levels patch and none, and no returned version has major = 0 and minor = 0.
C4_Clamp ==
    op = "NextVersion" /\ version # Nil =>
        LET level == MaxLevel(p, commits)
        IN /\ version.Major = 0 /\ version.Minor = 0 /\ level \in {none, patch}
                => newVersion = V(0, 1, 0)
           /\ version.Major = 0 /\ version.Minor = 0 /\ level = none
                => ~updated
           /\ ~(newVersion.Major = 0 /\ newVersion.Minor = 0)

\* 0.0.1 and one patch commit give 0.1.0
C4_Witness ==
    /\ op = "NextVersion"
    /\ version = V(0, 0, 1)
    /\ Len(commits) = 1
    /\ versionTypeToUpdate(p, commits[1]) = patch
    /\ newVersion = V(0, 1, 0)
    /\ updated

\* 0.0.0 and no commit give 0.1.0 with updated = false
C4_WitnessNone ==
    /\ op = "NextVersion"
    /\ version = V(0, 0, 0)
    /\ commits = <<>>
    /\ newVersion = V(0, 1, 0)
    /\ ~updated

\* C5: outside the clamp case the result is the semantic-version increment
\* of the current version by the largest level of the commits.
C5_StandardIncrement ==
    op = "NextVersion" /\ version # Nil =>
        LET level == MaxLevel(p, commits)
            expected ==
                CASE level = major -> V(version.Major + 1, 0, 0)
                  [] level = minor -> V(version.Major, version.Minor + 1, 0)
                  [] level = patch -> V(version.Major, version.Minor, version.Patch + 1)
                  [] level = none -> version
        IN (expected.Major > 0 \/ expected.Minor > 0) => newVersion = expected

\* 1.0.1 and one minor-level commit give 1.1.0
C5_Witness ==
    /\ op = "NextVersion"
    /\ version = V(1, 0, 1)
    /\ Len(commits) = 1
    /\ ~commits[1].IsBreakingChange
    /\ versionTypeToUpdate(p, commits[1]) = minor
    /\ newVersion = V(1, 1, 0)

\* 1.1.1 and a breaking commit of a patch type give 2.0.0
C5_WitnessBreaking ==
    /\ op = "NextVersion"
    /\ version = V(1, 1, 1)
    /\ Len(commits) = 1
    /\ commits[1].IsBreakingChange
    /\ vcfg.UpdateMajor = {}
    /\ newVersion = V(2, 0, 0)
    /\ updated

\* C6: updated is true iff some commit classifies above none, whatever the
\* current version is; without a current version no version is returned.
C6_Updated ==
    op = "NextVersion" =>
        /\ updated <=> \E i \in DOMAIN commits : versionTypeToUpdate(p, commits[i]) # none
        /\ version = Nil => newVersion = Nil
        /\ version # Nil => newVersion # Nil

\* no current version and one patch commit give (nil, true)
C6_Witness ==
    /\ op = "NextVersion"
    /\ version = Nil
    /\ Len(commits) = 1
    /\ versionTypeToUpdate(p, commits[1]) = patch
    /\ newVersion = Nil
    /\ updated

----------------------------------------------------------------------------
(* Claims about Parse (checked under SpecParse) *)

\* the subject that is parsed: what prepareHeader hands over
EffectiveSubject == prepareHeader(mcfg, subject)[1]

\* the message of the BREAKING CHANGE footer that Parse's scan of the body
\* finds, <<>> when it finds none
BreakingFooter == extractFooterMetadata(BreakingChangeFooterKey, removeCarriage(body), FALSE)

\* The grammar ^([a-z]+)(\(([^)]*)\))?(!)?: (.*)$ read from the left: the
\* leading run of lowercase letters, a scope up to the first ")", an
\* optional "!", then ": " and the description.
Grammar(s) ==
    LET run == {n \in 0..Len(s) : \A j \in 1..n : s[j] \in Lower}
        n == CHOOSE x \in run : \A y \in run : y <= x
        closing == {k \in (n + 2)..Len(s) : s[k] = ")"}
        open == n + 1 <= Len(s) /\ s[n + 1] = "("
        close == IF open /\ closing # {} THEN Min(closing) ELSE 0
        q == IF open THEN close + 1 ELSE n + 1
        bang == q <= Len(s) /\ s[q] = "!"
        r == IF bang THEN q + 1 ELSE q
    IN [ok |-> /\ n >= 1
               /\ open => close # 0
               /\ r + 1 <= Len(s)
               /\ s[r] = ":"
               /\ s[r + 1] = " "
               /\ \A j \in 1..Len(s) : s[j] # "\n",
        type |-> SubSeq(s, 1, n),
        scope |-> IF open /\ close # 0 THEN SubSeq(s, n + 2, close - 1) ELSE <<>>,
        bang |-> bang,
        description |-> TrimSpace(SubSeq(s, r + 2, Len(s)))]

C7_WitnessMarkerOnly ==
    /\ op = "Parse"
    /\ subject = <<"a", "b", "!", ":", " ", "c">>
    /\ body = <<>>
    /\ msg.IsBreakingChange
    /\ msg.Metadata = [k \in {BreakingChangeMetadataKey} |-> <<"c">>]

\* C8: a subject that does not match the anchored grammar is not taken
\* apart: type and scope are empty, the description is the whole subject and
\* only a BREAKING CHANGE footer can make the message breaking.
C8_FallbackOutsideGrammar ==
    op = "Parse" /\ err = NoError /\ ~Grammar(EffectiveSubject).ok =>
        /\ msg.Type = <<>>
        /\ msg.Scope = <<>>
        /\ msg.Description = EffectiveSubject
        /\ msg.IsBreakingChange => BreakingFooter # <<>>

\* C9: a subject that matches the grammar is taken apart as the grammar
\* says: the leading lowercase run, the scope up to the first ")", the !
\* before ": ", and the trimmed rest after the first ": ".
C9_FieldsOfGrammar ==
    op = "Parse" /\ err = NoError /\ Grammar(EffectiveSubject).ok =>
        LET g == Grammar(EffectiveSubject)
        IN /\ msg.Type = g.type
           /\ msg.Scope = g.scope
           /\ msg.Description = g.description
           /\ g.bang => msg.IsBreakingChange
           /\ msg.IsBreakingChange => (g.bang \/ BreakingFooter # <<>>)

\* C10: each footer with a non-empty key is searched by its key, then by its
\* synonyms in order; the first non-empty value is stored under the map key
\* of the footer; a footer with an empty key or without a hit leaves no
\* entry, and the metadata is a map (not nil) in every case.
C10_FooterSynonyms ==
    op = "Parse" /\ err = NoError =>
        LET text == removeCarriage(body)
        IN /\ msg.Metadata # NilMap
           /\ DOMAIN msg.Metadata \subseteq DOMAIN mcfg.Footer \cup {BreakingChangeMetadataKey}
           /\ \A key \in DOMAIN mcfg.Footer :
                LET f == mcfg.Footer[key]
                    prefix(i) == IF i = 1 THEN f.Key ELSE f.KeySynonyms[i - 1]
                    hits == {i \in 1..(1 + Len(f.KeySynonyms)) :
                                extractFooterMetadata(prefix(i), text, f.UseHash) # <<>>}
                IN IF f.Key = <<>> \/ hits = {}
                   THEN key \notin DOMAIN msg.Metadata
                   ELSE /\ key \in DOMAIN msg.Metadata
                        /\ msg.Metadata[key]
                             = extractFooterMetadata(prefix(Min(hits)), text, f.UseHash)
           /\ (DOMAIN msg.Metadata = {}) => msg.Metadata = EmptyMap

\* the synonym line "s: w" comes before the key line "k: v": the key wins
C10_Witness ==
    /\ op = "Parse"
    /\ err = NoError
    /\ mcfg.Footer = [issue |-> Footer(<<"k">>, <<<<"s">>, <<"t">>>>, FALSE)]
    /\ body = <<"s", ":", " ", "w", "\n", "k", ":", " ", "v">>
    /\ msg.Metadata = [k \in {IssueMetadataKey} |-> <<"v">>]

\* two synonym lines: the synonym configured first wins, not the first line
C10_WitnessSynonymOrder ==
    /\ op = "Parse"
    /\ mcfg.Footer = [issue |-> Footer(<<"k">>, <<<<"s">>, <<"t">>>>, FALSE)]
    /\ body = <<"t", ":", " ", "u", "\n", "s", ":", " ", "w">>
    /\ msg.Metadata = [k \in {IssueMetadataKey} |-> <<"w">>]

\* a footer with an empty key and a matching synonym line: no metadata
C10_WitnessEmptyKey ==
    /\ op = "Parse"
    /\ err = NoError
    /\ mcfg.Footer = [issue |-> Footer(<<>>, <<<<"s">>>>, FALSE)]
    /\ body = <<"s", ":", " ", "w">>
    /\ msg.Metadata = EmptyMap

----------------------------------------------------------------------------
(* Claims about extractFooterMetadata (checked under SpecFooter) *)

\* the physical lines of a text: the pieces between line feeds
RECURSIVE SplitLines(_)
SplitLines(s) ==
    LET nl == {i \in 1..Len(s) : s[i] = "\n"}
    IN IF nl = {} THEN <<s>>
       ELSE <<SubSeq(s, 1, Min(nl) - 1)>> \o SplitLines(SubSeq(s, Min(nl) + 1, Len(s)))

\* C11: a value returned by extractFooterMetadata is what follows the key
\* and ": " (or " ", the "#" kept, in hash style) on a line of the text that
\* begins with the key, up to the end of that line; a key in the middle of a
\* line or at the end of a longer word yields no value.
C11_LineAnchored ==
    op = "extractFooterMetadata" /\ ret # <<>> =>
        LET lines == SplitLines(args.text)
            pre == args.key \o (IF args.useHash THEN <<" ", "#">> ELSE <<":", " ">>)
        IN \E i \in DOMAIN lines :
              /\ HasPrefix(lines[i], pre)
              /\ ret = (IF args.useHash THEN <<"#">> ELSE <<>>)
                          \o SubSeq(lines[i], Len(pre) + 1, Len(lines[i]))

----------------------------------------------------------------------------
(* More claims about Parse (checked under SpecParse) *)

\* C12: without a header selector the subject is parsed as it is and Parse
\* does not fail; with one, Parse fails with the zero message when the
\* selector does not compile, has no group named header, or does not match
\* the subject, and parses the text of the header group otherwise.
C12_HeaderSelector ==
    op = "Parse" =>
        LET sel == mcfg.HeaderSelector
            at == Occurrences(<<"X", " ">>, subject)
            parsedAs(s) ==
                LET r == parseSubjectMessage(s)
                IN /\ err = NoError
                   /\ msg.Type = r[1]
                   /\ msg.Scope = r[2]
                   /\ msg.Description = r[3]
                   /\ msg.Metadata # NilMap
            failed == err # NoError /\ msg = ZeroCommitMessage
        IN /\ sel = "" => parsedAs(subject)
           /\ sel = "(" => failed
           /\ sel = "X (.*)" => failed
           /\ sel = "X (?P<header>.*)" /\ at = {} => failed
           /\ sel = "X (?P<header>.*)" /\ at # {} =>
                parsedAs(SubSeq(subject, Min(at) + 2, Len(subject)))

\* "X ab:c" under the selector X (?P<header>.*): the header "ab:c" is what
\* is parsed, and as it has no ": " it is the description
C12_Witness ==
    /\ op = "Parse"
    /\ mcfg.HeaderSelector = "X (?P<header>.*)"
    /\ subject = <<"X", " ", "a", "b", ":", "c">>
    /\ err = NoError
    /\ msg.Type = <<>>
    /\ msg.Description = <<"a", "b", ":", "c">>

\* a subject the selector does not match: Parse fails with the zero message
C12_WitnessNoMatch ==
    /\ op = "Parse"
    /\ mcfg.HeaderSelector = "X (?P<header>.*)"
    /\ subject = <<"a", "b", ":", " ", "c">>
    /\ err = "errInvalidHeaderRegex"
    /\ msg = ZeroCommitMessage

\* a selector without a group named header: Parse fails
C12_WitnessNoGroup ==
    /\ op = "Parse"
    /\ mcfg.HeaderSelector = "X (.*)"
    /\ Occurrences(<<"X", " ">>, subject) # {}
    /\ err = "errInvalidHeaderRegex"

----------------------------------------------------------------------------
(* Claims about Validate (checked under SpecValidate) *)

\* the three conditions on what Parse returned for the message
TypeIsKnown == \E i \in DOMAIN mcfg.Types : mcfg.Types[i] = msg.Type
ScopeIsAllowed ==
    \/ mcfg.Scope.Values = <<>>
    \/ \E i \in DOMAIN mcfg.Scope.Values : mcfg.Scope.Values[i] = msg.Scope
DescriptionIsLower == msg.Description # <<>> /\ msg.Description[1] \in Lower

\* C13: Validate succeeds iff Parse of the message's subject and body gives
\* a known type, an allowed scope and a description that starts with a
\* lowercase letter.
C13_ValidateAgreesWithParse ==
    op = "Validate" =>
        (ret = NoError <=>
            err = NoError /\ TypeIsKnown /\ ScopeIsAllowed /\ DescriptionIsLower)

C14_WitnessSubject ==
    /\ op = "Validate"
    /\ err = NoError
    /\ args.message = <<"a", "b", ":", "c">>
    /\ ret = ErrSubjectNotValid

\* an allowed type, a scope outside the list and a bad description: scope
C14_WitnessScope ==
    /\ op = "Validate"
    /\ TypeIsKnown
    /\ ~ScopeIsAllowed
    /\ ~DescriptionIsLower
    /\ ret = ErrScopeNotValid

----------------------------------------------------------------------------
(* Claims about release notes (checked under SpecReleaseNote).  C15, C17,  *)
(* C18 and C19 speak about the release note that Create returns and are    *)
(* stated for the calls of Create that return.                             *)

Returned == op = "Create" /\ ret # Panic

IsCommitsSection(s) == SectionType(s) = ReleaseNotesSectionTypeCommits
IsBreakingSection(s) == SectionType(s) = ReleaseNotesSectionTypeBreakingChanges

\* the entries of the configuration an emitted section can come from
EntriesOf(s) ==
    {k \in DOMAIN rcfg.Sections :
        /\ rcfg.Sections[k].SectionType = SectionType(s)
        /\ IsCommitsSection(s) => rcfg.Sections[k].Name = s.Name}

\* the breaking-change messages of the breaking commits of cs, in order
RECURSIVE BreakingMessagesOf(_)
BreakingMessagesOf(cs) ==
    IF cs = <<>> THEN <<>>
    ELSE (IF Head(cs).Message.IsBreakingChange
          THEN <<Head(cs).Message.Metadata[BreakingChangeMetadataKey]>> ELSE <<>>)
            \o BreakingMessagesOf(Tail(cs))

\* C15: every element of Sections is a section with content: a commits
\* section with at least one item, each an input commit, or a breaking
\* change section with at least one message while some input commit is
\* breaking; no element is empty or nil, and every section comes from an
\* entry of the configuration of its own type.
C15_SectionsNonEmpty ==
    Returned =>
        \A i \in DOMAIN ret.Sections :
            LET s == ret.Sections[i]
            IN /\ s # NilSection
               /\ IsCommitsSection(s) \/ IsBreakingSection(s)
               /\ IsCommitsSection(s) =>
                     /\ s.Items # <<>>
                     /\ \A a \in DOMAIN s.Items :
                           \E j \in DOMAIN args.commits : args.commits[j] = s.Items[a]
               /\ IsBreakingSection(s) =>
                     /\ s.Messages # <<>>
                     /\ \E j \in DOMAIN args.commits : args.commits[j].Message.IsBreakingChange
               /\ EntriesOf(s) # {}

\* Features, Fixes and Breaking Changes are configured, the only commit is
\* a feat commit that breaks nothing: Features is the only section
C15_Witness ==
    /\ Returned
    /\ rcfg.Sections = <<Features, Fixes, Breaking>>
    /\ Len(args.commits) = 1
    /\ args.commits[1].Message.Type = "feat"
    /\ ~args.commits[1].Message.IsBreakingChange
    /\ Len(ret.Sections) = 1
    /\ ret.Sections[1].Name = "Features"
    /\ ret.Sections[1].Items = args.commits

\* C16: for every breaking-changes entry of the configuration the output
\* has a breaking change section of that entry's name iff some input commit
\* is breaking, and its messages are those of all breaking commits in input
\* order.  A call of Create that does not return has no output.
C16_BreakingSection ==
    op = "Create" =>
        LET out == IF ret = Panic THEN <<>> ELSE ret.Sections
            breaking == \E j \in DOMAIN args.commits :
                            args.commits[j].Message.IsBreakingChange
        IN \A k \in DOMAIN rcfg.Sections :
              rcfg.Sections[k].SectionType = ReleaseNotesSectionTypeBreakingChanges =>
                 /\ breaking <=>
                       \E i \in DOMAIN out :
                           /\ IsBreakingSection(out[i])
                           /\ out[i].Name = rcfg.Sections[k].Name
                 /\ \A i \in DOMAIN out :
                       IsBreakingSection(out[i]) =>
                           out[i].Messages = BreakingMessagesOf(args.commits)

\* C17: sections come in the order of their entries in the configuration,
\* and the items of a commits section in the order of the input commits.
C17_Ordering ==
    Returned =>
        /\ \A i, j \in DOMAIN ret.Sections :
              i < j => \E k \in EntriesOf(ret.Sections[i]), l \in EntriesOf(ret.Sections[j]) :
                           k < l
        /\ \A i \in DOMAIN ret.Sections :
              IsCommitsSection(ret.Sections[i]) =>
                 \A a, b \in DOMAIN ret.Sections[i].Items :
                     a < b => ret.Sections[i].Items[a].Hash < ret.Sections[i].Items[b].Hash

\* the configuration is Fixes, Breaking Changes, Features; a feat commit
\* comes first, then a breaking fix commit: the sections are in the order
\* of the configuration, not of the commits
C17_Witness ==
    /\ Returned
    /\ rcfg.Sections = <<Fixes, Breaking, Features>>
    /\ Len(args.commits) = 2
    /\ args.commits[1].Message.Type = "feat"
    /\ args.commits[2].Message.Type = "fix"
    /\ args.commits[2].Message.IsBreakingChange
    /\ Len(ret.Sections) >= 3
    /\ ret.Sections[1].Name = "Fixes"
    /\ IsBreakingSection(ret.Sections[2])
    /\ ret.Sections[3].Name = "Features"

\* two commits of one section are its items in input order
C17_WitnessItems ==
    /\ Returned
    /\ rcfg.Sections = <<Features, Changes>>
    /\ Len(args.commits) = 2
    /\ Len(ret.Sections) = 1
    /\ ret.Sections[1].Items = args.commits

\* C18: a commit is an item of at most one commits section, of none when no
\* commits entry lists its type, and otherwise of the section of the last
\* entry that lists its type.
C18_Ownership ==
    Returned =>
        \A j \in DOMAIN args.commits :
            LET c == args.commits[j]
                holders == {i \in DOMAIN ret.Sections :
                               /\ IsCommitsSection(ret.Sections[i])
                               /\ \E a \in DOMAIN ret.Sections[i].Items :
                                     ret.Sections[i].Items[a] = c}
                listing == {k \in DOMAIN rcfg.Sections :
                               /\ rcfg.Sections[k].SectionType = ReleaseNotesSectionTypeCommits
                               /\ \E t \in DOMAIN rcfg.Sections[k].CommitTypes :
                                     rcfg.Sections[k].CommitTypes[t] = c.Message.Type}
                last == CHOOSE k \in listing : \A l \in listing : l <= k
            IN /\ Cardinality(holders) <= 1
               /\ \A i \in holders :
                     Cardinality({a \in DOMAIN ret.Sections[i].Items :
                                     ret.Sections[i].Items[a] = c}) = 1
               /\ listing = {} => holders = {}
               /\ listing # {} =>
                     /\ holders # {}
                     /\ \A i \in holders : ret.Sections[i].Name = rcfg.Sections[last].Name

\* feat is listed by Features and, later, by Changes: a feat commit goes to
\* Changes and Features is not in the release note
C18_Witness ==
    /\ Returned
    /\ rcfg.Sections = <<Features, Changes>>
    /\ Len(args.commits) = 1
    /\ args.commits[1].Message.Type = "feat"
    /\ Len(ret.Sections) = 1
    /\ ret.Sections[1].Name = "Changes"

\* a commit of a type that only an entry of an unsupported type lists
C18_WitnessUnmapped ==
    /\ Returned
    /\ rcfg.Sections = <<Other, Fixes>>
    /\ Len(args.commits) = 1
    /\ args.commits[1].Message.Type = "feat"
    /\ ret.Sections = <<>>

\* C19: the author set of the release note is the set of the author names
\* of all input commits; the formatter's author names are that set in
\* strictly ascending order.
C19_Authors ==
    /\ Returned =>
          ret.AuthorsNames = {args.commits[j].AuthorName : j \in DOMAIN args.commits}
    /\ op = "releaseNoteVariables" =>
          /\ {ret.AuthorNames[i] : i \in DOMAIN ret.AuthorNames} = args.releasenote.AuthorsNames
          /\ \A i, j \in DOMAIN ret.AuthorNames :
                i < j => StringLess(ret.AuthorNames[i], ret.AuthorNames[j])

\* the author of a commit that goes to no section is in the author set
C19_Witness ==
    /\ Returned
    /\ rcfg.Sections = <<Features>>
    /\ Len(args.commits) = 2
    /\ args.commits[1].Message.Type = "feat"
    /\ args.commits[1].AuthorName = <<"a">>
    /\ args.commits[2].Message.Type = "fix"
    /\ args.commits[2].AuthorName = <<"B">>
    /\ ret.AuthorsNames = {<<"a">>, <<"B">>}

\* the names "ab" and "a" formatted: "a" first, as a prefix of "ab"
C19_WitnessSorted ==
    /\ op = "releaseNoteVariables"
    /\ args.releasenote.AuthorsNames = {<<"a", "b">>, <<"a">>}
    /\ ret.AuthorNames = <<<<"a">>, <<"a", "b">>>>

\* two commits of one author: one name
C19_WitnessRepeated ==
    /\ Returned
    /\ Len(args.commits) = 2
    /\ args.commits[1].AuthorName = args.commits[2].AuthorName
    /\ Cardinality(ret.AuthorsNames) = 1

----------------------------------------------------------------------------
(* Claims about Enhance (checked under SpecEnhance) *)

\* the issue footer key of the configuration; <<>>: none is configured
IssueKey ==
    IF IssueMetadataKey \in DOMAIN mcfg.Footer THEN mcfg.Footer[IssueMetadataKey].Key ELSE <<>>

IssueUseHash == IssueMetadataKey \in DOMAIN mcfg.Footer /\ mcfg.Footer[IssueMetadataKey].UseHash

\* the message has a line made of the issue footer key, ": " (" #" in hash
\* style) and a value that is not empty
HasIssueLine ==
    LET pre == IssueKey \o (IF IssueUseHash THEN <<" ", "#">> ELSE <<":", " ">>)
        lines == SplitLines(args.message)
    IN \E i \in DOMAIN lines : HasPrefix(lines[i], pre) /\ Len(lines[i]) > Len(pre)

\* C20: Enhance returns the empty string and no error when issue tracking
\* is disabled for branches, when no issue footer key is configured, and
\* when the message already has an issue footer line with a value, whatever
\* the branch name and the issue pattern are.
C20_NoOpCases ==
    op = "Enhance" /\ (bcfg.DisableIssue \/ IssueKey = <<>> \/ HasIssueLine)
        => ret = <<<<>>, NoError>>

\* the message has the issue footer and the issue pattern does not compile
C20_Witness ==
    /\ op = "Enhance"
    /\ ~bcfg.DisableIssue
    /\ IssueKey # <<>>
    /\ HasIssueLine
    /\ mcfg.Issue.Regex = "("
    /\ ret = <<<<>>, NoError>>

\* issue tracking is disabled and the issue pattern does not compile
C20_WitnessDisabled ==
    /\ op = "Enhance"
    /\ bcfg.DisableIssue
    /\ IssueKey # <<>>
    /\ ~HasIssueLine
    /\ mcfg.Issue.Regex = "("
    /\ ret = <<<<>>, NoError>>

\* no issue footer key and a branch without an issue id
C20_WitnessNoKey ==
    /\ op = "Enhance"
    /\ ~bcfg.DisableIssue
    /\ IssueKey = <<>>
    /\ mcfg.Issue.Regex = "[A-Z]+-[0-9]+"
    /\ args.branch = <<"f">>
    /\ ret = <<<<>>, NoError>>

\* none of the cases in which Enhance has no effect
EnhanceActs == op = "Enhance" /\ ~bcfg.DisableIssue /\ IssueKey # <<>> /\ ~HasIssueLine

\* ": " or " #" after the key
IssueSeparator == IF IssueUseHash THEN <<" ", "#">> ELSE <<":", " ">>

C21_WitnessNoPattern ==
    /\ EnhanceActs
    /\ mcfg.Issue.Regex = ""
    /\ ret = <<<<>>, errIssueIDNotFound>>

\* the issue pattern does not compile
C21_WitnessInvalid ==
    /\ EnhanceActs
    /\ mcfg.Issue.Regex = "("
    /\ ret = <<<<>>, errInvalidIssueRegex>>

----------------------------------------------------------------------------
(* Claims about Format and the footer of Enhance (checked under SpecFormat) *)

\* the issue id that is formatted: the one of the message given to Format,
\* or the one Enhance resolved from the branch
FormattedIssue ==
    IF op = "Format" THEN args.msg.Metadata[IssueMetadataKey]
    ELSE IssueID(bcfg, mcfg, args.branch)[1]

\* the issue footer line that was returned
IssueLine == IF op = "Format" THEN ret[3] ELSE TrimPrefix(ret[1], <<"\n">>)

\* an issue footer was written by Format (of a message without a breaking
\* change) or by Enhance
IssueFormatted ==
    \/ /\ op = "Format"
       /\ IssueMetadataKey \in DOMAIN args.msg.Metadata
       /\ ~args.msg.IsBreakingChange
       /\ IssueKey # <<>>
    \/ op = "Enhance" /\ ret[2] = NoError /\ ret[1] # <<>>

\* C22: the issue footer is the key, ": " and the value in colon style and
\* the key, " #" and the value without a leading "#" in hash style, where
\* the value is the issue id, with the value prefix before it iff the id
\* does not begin with the prefix.
C22_IssueFooterFormat ==
    IssueFormatted =>
        LET id == FormattedIssue
            pre == mcfg.Footer[IssueMetadataKey].AddValuePrefix
            value == IF HasPrefix(id, pre) THEN id ELSE pre \o id
        IN /\ ~IssueUseHash => IssueLine = IssueKey \o <<":", " ">> \o value
           /\ IssueUseHash =>
                 IssueLine = IssueKey \o <<" ", "#">>
                               \o (IF Head(value) = "#" THEN Tail(value) ELSE value)
           /\ pre # <<>> => ~HasPrefix(value, pre \o pre)

\* Format, colon style: the id "#13" with the prefix "#" gives "k: #13"
C22_Witness ==
    /\ op = "Format"
    /\ IssueFormatted
    /\ ~IssueUseHash
    /\ mcfg.Footer[IssueMetadataKey].AddValuePrefix = <<"#">>
    /\ FormattedIssue = <<"#", "1", "3">>
    /\ ret[3] = <<"k", ":", " ", "#", "1", "3">>

\* Format, colon style: the id "13" with the prefix "#" gives "k: #13"
C22_WitnessPrefixAdded ==
    /\ op = "Format"
    /\ IssueFormatted
    /\ ~IssueUseHash
    /\ mcfg.Footer[IssueMetadataKey].AddValuePrefix = <<"#">>
    /\ FormattedIssue = <<"1", "3">>
    /\ ret[3] = <<"k", ":", " ", "#", "1", "3">>

\* Format, hash style: the id "#13" gives "k #13"
C22_WitnessHash ==
    /\ op = "Format"
    /\ IssueFormatted
    /\ IssueUseHash
    /\ FormattedIssue = <<"#", "1", "3">>
    /\ ret[3] = <<"k", " ", "#", "1", "3">>

\* Enhance, with the prefix "#" and an id of the branch without it
C22_WitnessEnhance ==
    /\ op = "Enhance"
    /\ IssueFormatted
    /\ ~IssueUseHash
    /\ mcfg.Footer[IssueMetadataKey].AddValuePrefix = <<"#">>
    /\ args.branch = <<"f", "/", "1", "3">>
    /\ IssueLine = <<"k", ":", " ", "#", "1", "3">>

----------------------------------------------------------------------------
(* More claims about Enhance (checked under SpecEnhance) *)

\* the line has the shape "word: text" or "word #text", the word made of
\* letters and hyphens, or the shape "BREAKING CHANGE: text"
FooterShape(line) ==
    LET word == {n \in 0..Len(line) : \A j \in 1..n : line[j] \in Lower \cup Upper \cup {"-"}}
    IN \/ \E n \in word \ {0} :
             \/ HasPrefix(SubSeq(line, n + 1, Len(line)), <<":", " ">>)
             \/ HasPrefix(SubSeq(line, n + 1, Len(line)), <<" ", "#">>)
       \/ HasPrefix(line, <<"B", "R", "E", "A", "K", "I", "N", "G", " ",
                             "C", "H", "A", "N", "G", "E", ":", " ">>)

\* a line of the message after the first has the shape of a footer
HasFooterBlock ==
    LET lines == SplitLines(args.message)
    IN \E i \in DOMAIN lines : i > 1 /\ FooterShape(lines[i])

\* Enhance returned a footer
EnhanceFooter == op = "Enhance" /\ ret[2] = NoError /\ ret[1] # <<>>

\* C23: a footer that Enhance returns begins with a line feed iff no line
\* of the message after the first has the shape of a footer; after the line
\* feed, or from the start, it is one line.
C23_FooterBlock ==
    EnhanceFooter =>
        /\ Head(ret[1]) = "\n" <=> ~HasFooterBlock
        /\ \A i \in 2..Len(ret[1]) : ret[1][i] # "\n"

\* a message with a footer of another key: the bare line is returned
C23_Witness ==
    /\ EnhanceFooter
    /\ args.message = <<"a", "b", ":", " ", "c", "\n", "s", ":", " ", "w">>
    /\ Head(ret[1]) # "\n"

\* a subject of the shape of a footer and nothing else: a new block
C23_WitnessSubject ==
    /\ EnhanceFooter
    /\ args.message = <<"k", " ", "#", "v">>
    /\ Head(ret[1]) = "\n"

\* a BREAKING CHANGE footer: the bare line is returned
C23_WitnessBreaking ==
    /\ EnhanceFooter
    /\ args.message = <<"a", "b", ":", " ", "c", "\n">> \o BreakingChangeFooterKey \o <<":", " ", "m">>
    /\ Head(ret[1]) # "\n"

\* a key in the middle of a line is no footer: a new block
C23_WitnessMiddle ==
    /\ EnhanceFooter
    /\ args.message = <<"a", "b", ":", " ", "c", "\n", "x", " ", "k", ":", " ", "v">>
    /\ Head(ret[1]) = "\n"

\* the groups of a match of the branch against ^prefix(issue pattern)suffix$
BranchGroups == findBranchSubmatch(bcfg.Prefix, mcfg.Issue.Regex, bcfg.Suffix, args.branch)

\* where the group of the issue pattern stands among them: after the whole
\* match and after the group of the prefix, if the prefix is one
IssueGroup == IF bcfg.Prefix = "" THEN 2 ELSE 3

\* C24: IssueID returns "" and no error when issue tracking is disabled or
\* no issue pattern is configured; an error only when the pattern does not
\* compile; else the text of the issue group when the whole branch matches
\* with exactly four groups, and "" with no error when it does not match or
\* matches with another number of groups.
C24_IssueID ==
    op = "IssueID" =>
        IF bcfg.DisableIssue \/ mcfg.Issue.Regex = "" THEN ret = <<<<>>, NoError>>
        ELSE IF mcfg.Issue.Regex = "(" THEN ret = <<<<>>, errInvalidIssueRegex>>
        ELSE IF Len(BranchGroups) = 4 THEN ret = <<BranchGroups[IssueGroup], NoError>>
        ELSE ret = <<<<>>, NoError>>

\* type, optional scope in parentheses, ": " and description
HeaderOf(type, scope, description) ==
    type \o (IF scope # <<>> THEN <<"(">> \o scope \o <<")">> ELSE <<>>)
         \o <<":", " ">> \o description

\* a subject of the grammar with the ! marker was parsed with an empty
\* body, the result formatted, and header and footer parsed again
RoundTrip ==
    /\ op = "ParseFormatted"
    /\ Grammar(args.subject).ok
    /\ Grammar(args.subject).bang

\* C25: for a subject type(scope)!: description, Format of the parsed
\* message gives the header type(scope): description, without the !, and a
\* footer with the line BREAKING CHANGE: description; parsing header and
\* footer again gives the same type, scope, description and breaking flag.
C25_FormatRoundTrip ==
    RoundTrip =>
        LET g == Grammar(args.subject)
            lines == SplitLines(ret[3])
        IN /\ ret[1] = HeaderOf(g.type, g.scope, g.description)
           /\ \E i \in DOMAIN lines :
                 lines[i] = BreakingChangeFooterKey \o <<":", " ">> \o g.description
           /\ err = NoError
           /\ msg.Type = g.type
           /\ msg.Scope = g.scope
           /\ msg.Description = g.description
           /\ msg.IsBreakingChange
           /\ args.msg.IsBreakingChange

----------------------------------------------------------------------------
(* Claims about SkipBranch (checked under SpecSkip) *)

\* C26: SkipBranch is true iff the branch name equals an entry of the skip
\* list, or the head is detached and skip-detached is set to true; with
\* skip-detached not set a detached head is not skipped.
C26_SkipBranch ==
    op = "SkipBranch" =>
        (ret = TRUE <=>
            \/ \E i \in DOMAIN bcfg.Skip : bcfg.Skip[i] = args.branch
            \/ args.detached /\ bcfg.SkipDetached = [value |-> TRUE])

\* skip-detached not set, a detached head on a branch that is only the
\* beginning of an entry: not skipped
C26_Witness ==
    /\ op = "SkipBranch"
    /\ bcfg.SkipDetached = Nil
    /\ args.detached
    /\ bcfg.Skip = <<<<"m", "a">>>>
    /\ args.branch = <<"m">>
    /\ ret = FALSE

\* a branch of the skip list
C26_WitnessListed ==
    /\ op = "SkipBranch"
    /\ ~args.detached
    /\ bcfg.Skip = <<<<"d">>, <<"m", "a">>>>
    /\ args.branch = <<"m", "a">>
    /\ ret = TRUE

\* a detached head with skip-detached set to true
C26_WitnessDetached ==
    /\ op = "SkipBranch"
    /\ args.detached
    /\ bcfg.SkipDetached = [value |-> TRUE]
    /\ bcfg.Skip = <<>>
    /\ ret = TRUE

----------------------------------------------------------------------------
(* More claims about Create (checked under SpecReleaseNote) *)

\* C27: Create returns a release note for every configuration and every
\* commit list, it never assigns beyond the end of the sections it
\* allocated, and no section is emitted more than once.
C27_CreateReturns ==
    op = "Create" =>
        /\ ret # Panic
        /\ \A i, j \in DOMAIN ret.Sections :
              i # j => ret.Sections[i] # ret.Sections[j]

C28_WitnessColon ==
    /\ op = "EnhanceAgain"
    /\ ~IssueUseHash
    /\ mcfg.Footer[IssueMetadataKey].AddValuePrefix = <<>>
    /\ Head(args.footer) # "\n"
    /\ ret = <<<<>>, NoError>>

\* C29: when Parse of the message yields issue metadata, through the issue
\* key or through one of its synonyms, Enhance on that message returns the
\* empty string.
C29_EnhanceAgreesWithParse ==
    op = "Enhance" /\ err = NoError /\ IssueMetadataKey \in DOMAIN msg.Metadata
        => ret[1] = <<>>

----------------------------------------------------------------------------
(* Claims about the commit-message hook (checked under SpecHook) *)

\* what the steps of the hook come to for what it was started with
BranchSkipped == SkipBranch(bcfg, hook.branch, ~hook.derr /\ hook.detached)
MergeSource == hook.source = "merge"
MessageValid == Validate(mcfg, hook.content) = NoError
Enhanced == Enhance(bcfg, mcfg, hook.branch, hook.content)

\* the branch is not skipped, the source is not merge, the file was read,
\* the message is valid and Enhance returned a text without an error
AllHeld ==
    /\ ~BranchSkipped
    /\ ~MergeSource
    /\ hook.read
    /\ MessageValid
    /\ Enhanced[2] = NoError
    /\ Enhanced[1] # <<>>

\* C30: the file is appended to at most once, and only when the branch is
\* not skipped, the source is not merge, the file was read, Validate
\* succeeded and Enhance returned a text without error; on every other
\* path the file keeps its content.  Of the outcomes for the message only a
\* validation failure makes the hook fail; an Enhance error ends it
\* without a failure; the earlier steps come first.
C30_HookOrder ==
    pc # "none" =>
        /\ appends <= 1
        /\ appends = 0 => file = hook.content
        /\ appends = 1 => AllHeld /\ pc = "done"
        /\ pc = "done" /\ hook.result # NoError =>
              /\ ~BranchSkipped
              /\ ~MergeSource
              /\ \/ ~hook.read
                 \/ ~MessageValid
                 \/ AllHeld /\ hook.result = errAppendFooter
        /\ pc = "done" /\ ~BranchSkipped /\ ~MergeSource /\ hook.read /\ ~MessageValid =>
              hook.result # NoError
        /\ pc = "done" /\ ~BranchSkipped /\ ~MergeSource /\ hook.read /\ MessageValid
              /\ Enhanced[2] # NoError =>
              hook.result = NoError /\ file = hook.content

\* the footer was appended
C30_Witness ==
    /\ pc = "done"
    /\ appends = 1
    /\ hook.result = NoError
    /\ file = hook.content \o Enhanced[1]
    /\ file # hook.content

\* an Enhance error: the hook ends without a failure, the file as it was
C30_WitnessEnhanceError ==
    /\ pc = "done"
    /\ ~BranchSkipped /\ ~MergeSource /\ hook.read /\ MessageValid
    /\ Enhanced[2] = errIssueIDNotFound
    /\ hook.result = NoError
    /\ file = hook.content

\* a message that is not valid: the hook fails, the file as it was
C30_WitnessInvalid ==
    /\ pc = "done"
    /\ ~BranchSkipped /\ ~MergeSource /\ hook.read /\ ~MessageValid
    /\ hook.result = errReadCommitMessage
    /\ file = hook.content

\* a skipped branch with a message that is not valid: no failure
C30_WitnessSkipped ==
    /\ pc = "done"
    /\ BranchSkipped
    /\ ~MessageValid
    /\ hook.result = NoError
    /\ file = hook.content

====
